---- MODULE Spec2Model ----
(***************************************************************************)
(* file-flow: the upload orchestrator (an S3 notification handler that     *)
(* starts Step Functions executions) and the processing state machine      *)
(* (ValidateInput -> ResizeImage -> AdjustExposure), and the validator,    *)
(* the presign handler and generateFileKey invoked on their own; the       *)
(* resize handler with its target dimensions, the exposure transform, and  *)
(* the object keys of the two image stages.                                *)
(*                                                                         *)
(* Strings whose characters the code inspects (object keys, bucket names)  *)
(* are sequences of one-character strings.                                 *)
(***************************************************************************)
EXTENDS Integers, Sequences, FiniteSets, TLC

(***************************************************************************)
(* Bounds of the model.                                                    *)
(***************************************************************************)
\* Date.now() takes the values 0..MaxClock (milliseconds).
MaxClock == 1
\* Records per notification batch.
MaxBatch == 2
\* Handler invocations per behaviour.
MaxInvocations == 2
\* Characters of a filename handed to generateFileKey.
MaxNameLen == 2
\* Largest width or height of the small images and small targets of a resize.
MaxDim == 4

VARIABLES
    now,          \* the wall clock read by Date.now()
    hpc,          \* position of the orchestrator handler
    batch,        \* event.Records of the invocation in progress
    mapIdx,       \* next record Records.map will hand to processS3Record
    recs,         \* per record: state of its promise chain and the command sent
    executions,   \* executions the workflow engine has started
    failedLog,    \* records logged as failed by the batch driver
    invocations,  \* handler invocations so far
    wfStatus,     \* status of the workflow execution
    wfState,      \* the state machine state the execution is in
    wfData,       \* the JSON input of that state
    wfRetries,    \* retries the current state has used
    wfHistory,    \* the execution's event history
    fnPc,         \* position of a function invoked on its own
    fnArg,        \* what that invocation is given (event and environment)
    fnOut         \* what it has answered

orchVars == <<now, hpc, batch, mapIdx, recs, executions, failedLog, invocations>>

wfVars == <<wfStatus, wfState, wfData, wfRetries, wfHistory>>

fnVars == <<fnPc, fnArg, fnOut>>

vars == <<orchVars, wfVars, fnVars>>

(***************************************************************************)
(* String helpers (String.prototype.startsWith / endsWith / replace).      *)
(***************************************************************************)
StartsWith(s, p) ==
    /\ Len(s) >= Len(p)
    /\ SubSeq(s, 1, Len(p)) = p

EndsWith(s, p) ==
    /\ Len(s) >= Len(p)
    /\ SubSeq(s, Len(s) - Len(p) + 1, Len(s)) = p

\* key.replace(/\+/g, ' ')
ReplacePlus(s) == [i \in DOMAIN s |-> IF s[i] = "+" THEN " " ELSE s[i]]

HexDigits == <<"0","1","2","3","4","5","6","7","8","9","A","B","C","D","E","F">>

IsHex(c) == \E i \in DOMAIN HexDigits : HexDigits[i] = c

HexVal(c) == (CHOOSE i \in DOMAIN HexDigits : HexDigits[i] = c) - 1

\* The character of an ASCII code: the ones object keys use are spelled out.
Chr(n) ==
    CASE n = 32 -> " "
      [] n = 37 -> "%"
      [] n = 43 -> "+"
      [] n = 47 -> "/"
      [] OTHER -> "\\x" \o ToString(n)

\* decodeURIComponent: every %XY with hex digits X, Y becomes the character of
\* that code; a '%' not followed by two hex digits, or a byte >= 0x80 that is
\* not part of a well-formed UTF-8 sequence (the keys of this model hold none),
\* raises URIError.
RECURSIVE DecodeFrom(_, _)
DecodeFrom(s, i) ==
    IF i > Len(s) THEN [ok |-> TRUE, val |-> <<>>]
    ELSE IF s[i] # "%"
    THEN LET rest == DecodeFrom(s, i + 1)
         IN  [ok |-> rest.ok, val |-> <<s[i]>> \o rest.val]
    ELSE IF i + 2 > Len(s) \/ ~IsHex(s[i + 1]) \/ ~IsHex(s[i + 2])
    THEN [ok |-> FALSE, val |-> <<>>]
    ELSE LET byte == 16 * HexVal(s[i + 1]) + HexVal(s[i + 2])
             rest == DecodeFrom(s, i + 3)
         IN  IF byte >= 128
             THEN [ok |-> FALSE, val |-> <<>>]
             ELSE [ok |-> rest.ok, val |-> <<Chr(byte)>> \o rest.val]

decodeURIComponent(s) == DecodeFrom(s, 1)

UploadsPrefix == <<"u","p","l","o","a","d","s","/">>

Slash == <<"/">>

RECURSIVE Digits(_)
Digits(n) ==
    IF n < 10 THEN <<ToString(n)>>
    ELSE Digits(n \div 10) \o <<ToString(n % 10)>>

(***************************************************************************)
(* Notification records (S3EventRecord).  hasS3 / hasObject say whether    *)
(* the record carries its s3 and s3.object fields.                         *)
(***************************************************************************)
BucketName == <<"b","k","t">>

KeyPlain == UploadsPrefix \o <<"a">>
KeyEncoded == <<"u","p","l","o","a","d","s","%","2","F","b","+","c">>
KeyFolder == UploadsPrefix \o <<"d","%","2","F">>
KeyOther == <<"t","m","p","/","a">>
KeyBadEscape == UploadsPrefix \o <<"%","G","1">>

S3Record(k, sz, t) ==
    [hasS3 |-> TRUE, hasObject |-> TRUE, bucket |-> BucketName,
     key |-> k, size |-> sz, eventTime |-> t]

RecordNoS3 ==
    [hasS3 |-> FALSE, hasObject |-> FALSE, bucket |-> <<>>,
     key |-> <<>>, size |-> 0, eventTime |-> "t7"]

Notifications ==
    { S3Record(KeyPlain, 11, "t1"), S3Record(KeyEncoded, 12, "t2"),
      S3Record(KeyFolder, 14, "t4"), S3Record(KeyOther, 15, "t5"),
      S3Record(KeyBadEscape, 16, "t6"), RecordNoS3 }

Batches == UNION { [1..n -> Notifications] : n \in 1..MaxBatch }

NoInput ==
    [bucket |-> <<>>, key |-> <<>>, contentType |-> "", size |-> 0,
     uploadedAt |-> ""]

NoCmd == [name |-> <<>>, input |-> NoInput]

(***************************************************************************)
(* stepFunctionsService.startExecution: the execution name.                *)
(***************************************************************************)
\* The string handed to the hash: `${input.bucket}-${input.key}-${Date.now()}`
HashedString(input, t) ==
    input.bucket \o <<"-">> \o input.key \o <<"-">> \o Digits(t)

\* createHash('md5').update(s).digest('hex'): equal digests for equal strings,
\* different digests for different strings (no collision is modelled).
Md5Hex(s) == <<"md5">> \o s

\* name: `img-process-${executionName}`
ExecutionName(input, t) == <<"img-process-">> \o Md5Hex(HashedString(input, t))

StartExecutionCommand(input, t) ==
    [name |-> ExecutionName(input, t), input |-> input]

(***************************************************************************)
(* processS3Record up to its first await: a TypeError for a record without *)
(* s3 or s3.object, a URIError for a key that cannot be decoded, a skip, or*)
(* the ProcessingInput whose execution is to be started.                   *)
(***************************************************************************)
Thrown(e) == [kind |-> "throw", err |-> e, input |-> NoInput]

Skipped == [kind |-> "skip", err |-> "", input |-> NoInput]

\* processS3Record as the design document has it: the prefix test reads the
\* raw key, and there is no folder test.
processS3Record_RawKeyTest(record) ==
    IF ~record.hasS3 \/ ~record.hasObject THEN Thrown("TypeError")
    ELSE IF ~StartsWith(record.key, UploadsPrefix) THEN Skipped
    ELSE LET decoded == decodeURIComponent(ReplacePlus(record.key))
         IN  IF ~decoded.ok THEN Thrown("URIError")
             ELSE [kind |-> "start", err |-> "",
                   input |-> [bucket |-> record.bucket,
                              key |-> decoded.val,
                              contentType |-> "image/jpeg",
                              size |-> record.size,
                              uploadedAt |-> record.eventTime]]

processS3Record(record) ==
    IF ~record.hasS3 \/ ~record.hasObject THEN Thrown("TypeError")
    ELSE LET decoded == decodeURIComponent(ReplacePlus(record.key))
         IN  IF ~decoded.ok THEN Thrown("URIError")
             ELSE IF ~StartsWith(decoded.val, UploadsPrefix) THEN Skipped
             ELSE IF EndsWith(decoded.val, Slash) THEN Skipped
             ELSE [kind |-> "start", err |-> "",
                   input |-> [bucket |-> record.bucket,
                              key |-> decoded.val,
                              contentType |-> "image/jpeg",
                              size |-> record.size,
                              uploadedAt |-> record.eventTime]]

\* processS3Record on each notification of the model.
SyncOutcome == [r \in Notifications |-> processS3Record(r)]

\* The catch block around startExecution: TRUE when the failure is swallowed
\* (the record ends as a success), FALSE when it is rethrown.
\* Without the ExecutionAlreadyExists test (the design document's version has
\* no try/catch around startExecution).
SwallowsStartError_Never(err) == FALSE

SwallowsStartError(err) == err = "ExecutionAlreadyExists"

\* The .catch callback of the batch driver reads record.s3.object.key for its
\* log line: TRUE when that read throws.
CatchCallbackThrows(record) == ~record.hasS3 \/ ~record.hasObject

\* Records.map hands every element to processS3Record, whatever happened to
\* the elements before it.
\* A sequential loop that stops at the first record that throws.
MapReaches_StopAtFirstThrow(b, i) ==
    \A j \in 1..(i - 1) : SyncOutcome[b[j]].kind # "throw"

MapReaches(b, i) == TRUE

(***************************************************************************)
(* The workflow engine's answers to StartExecution.                        *)
(***************************************************************************)
ExecutionNames == { e.name : e \in executions }

StartOutcomes(cmd) ==
    IF cmd.name \in ExecutionNames
    THEN {"ExecutionAlreadyExists", "ServiceUnavailable"}
    ELSE {"started", "ServiceUnavailable"}

(***************************************************************************)
(* Orchestrator actions.                                                   *)
(***************************************************************************)
Unmapped == [st |-> "unmapped", err |-> "", sends |-> 0, cmd |-> NoCmd]

\* The orchestrator alone: no execution is followed through the state machine.
InitOrch ==
    /\ now = 0
    /\ hpc = "idle"
    /\ batch = <<>>
    /\ mapIdx = 1
    /\ recs = <<>>
    /\ executions = {}
    /\ failedLog = {}
    /\ invocations = 0
    /\ fnPc = "idle"
    /\ fnArg = <<>>
    /\ fnOut = <<>>
    /\ wfStatus = "NOT_STARTED"
    /\ wfState = ""
    /\ wfData = <<>>
    /\ wfRetries = 0
    /\ wfHistory = <<>>

\* Wall-clock time passes.  Date.now() is read only inside Records.map, so
\* time that passes later in an invocation is counted once the handler is idle.
Tick ==
    /\ hpc \in {"idle", "map"}
    /\ now < MaxClock
    /\ now' = now + 1
    /\ UNCHANGED <<hpc, batch, mapIdx, recs, executions, failedLog, invocations>>
    /\ UNCHANGED <<wfVars, fnVars>>

\* A notification batch is delivered: orchestratorHandler begins.
Invoke(b) ==
    /\ hpc = "idle"
    /\ invocations < MaxInvocations
    /\ invocations' = invocations + 1
    /\ batch' = b
    /\ recs' = [i \in 1..Len(b) |-> Unmapped]
    /\ mapIdx' = 1
    /\ failedLog' = {}
    /\ hpc' = "map"
    /\ UNCHANGED <<now, executions>>
    /\ UNCHANGED <<wfVars, fnVars>>

\* One callback of event.Records.map: processS3Record runs to its first await.
MapRecord ==
    /\ hpc = "map"
    /\ LET i == mapIdx
           out == SyncOutcome[batch[i]]
       IN  IF ~MapReaches(batch, i)
           THEN /\ hpc' = "rejected"
                /\ UNCHANGED <<recs, mapIdx>>
           ELSE /\ recs' = [recs EXCEPT ![i] =
                     CASE out.kind = "throw" ->
                            [st |-> "rejected", err |-> out.err, sends |-> 0,
                             cmd |-> NoCmd]
                       [] out.kind = "skip" ->
                            [st |-> "fulfilled", err |-> "", sends |-> 0,
                             cmd |-> NoCmd]
                       [] OTHER ->
                            [st |-> "awaitingSend", err |-> "",
                             sends |-> recs[i].sends + 1,
                             cmd |-> StartExecutionCommand(out.input, now)]]
                /\ mapIdx' = i + 1
                /\ hpc' = IF i = Len(batch) THEN "join" ELSE "map"
    /\ UNCHANGED <<now, batch, executions, failedLog, invocations>>
    /\ UNCHANGED <<wfVars, fnVars>>

\* client.send settles for record i and processS3Record runs to its end.
SendSettles(i) ==
    /\ hpc \in {"join", "rejected"}
    /\ recs[i].st = "awaitingSend"
    /\ \E o \in StartOutcomes(recs[i].cmd) :
         IF o = "started"
         THEN /\ executions' = executions \cup {recs[i].cmd}
              /\ recs' = [recs EXCEPT ![i].st = "fulfilled"]
         ELSE /\ UNCHANGED executions
              /\ recs' = [recs EXCEPT
                            ![i].st = IF SwallowsStartError(o)
                                      THEN "fulfilled" ELSE "rejected",
                            ![i].err = o]
    /\ UNCHANGED <<now, hpc, batch, mapIdx, failedLog, invocations>>
    /\ UNCHANGED <<wfVars, fnVars>>

\* The .catch callback of record i: log the failure, resolve.
CatchRecord(i) ==
    /\ hpc \in {"join", "rejected"}
    /\ recs[i].st = "rejected"
    /\ IF CatchCallbackThrows(batch[i])
       THEN /\ recs' = [recs EXCEPT ![i].st = "catchThrew"]
            /\ UNCHANGED failedLog
       ELSE /\ recs' = [recs EXCEPT ![i].st = "fulfilled"]
            /\ failedLog' = failedLog \cup {i}
    /\ UNCHANGED <<now, hpc, batch, mapIdx, executions, invocations>>
    /\ UNCHANGED <<wfVars, fnVars>>

\* await Promise.all(promises) resolves: every promise is fulfilled.
HandlerCompletes ==
    /\ hpc = "join"
    /\ \A i \in DOMAIN recs : recs[i].st = "fulfilled"
    /\ hpc' = "done"
    /\ UNCHANGED <<now, batch, mapIdx, recs, executions, failedLog, invocations>>
    /\ UNCHANGED <<wfVars, fnVars>>

\* await Promise.all(promises) rejects with the first rejected promise.
HandlerRejects ==
    /\ hpc = "join"
    /\ \E i \in DOMAIN recs : recs[i].st = "catchThrew"
    /\ hpc' = "rejected"
    /\ UNCHANGED <<now, batch, mapIdx, recs, executions, failedLog, invocations>>
    /\ UNCHANGED <<wfVars, fnVars>>

\* The invocation is over; the next batch can be delivered.
Return ==
    /\ hpc \in {"done", "rejected"}
    /\ hpc' = "idle"
    /\ batch' = <<>>
    /\ recs' = <<>>
    /\ mapIdx' = 1
    /\ failedLog' = {}
    /\ UNCHANGED <<now, executions, invocations>>
    /\ UNCHANGED <<wfVars, fnVars>>

NextOrch ==
    \/ Tick
    \/ \E b \in Batches : Invoke(b)
    \/ MapRecord
    \/ \E i \in DOMAIN recs : SendSettles(i)
    \/ \E i \in DOMAIN recs : CatchRecord(i)
    \/ HandlerCompletes
    \/ HandlerRejects
    \/ Return

OrchSpec == InitOrch /\ [][NextOrch]_vars

(***************************************************************************)
(* JSON documents of the state machine: a document is a function from the  *)
(* paths of its leaves (sequences of field names) to the leaf values, each *)
(* leaf a sequence of strings.  $.a.b is the path <<"a", "b">>.            *)
(***************************************************************************)
IsPrefix(p, q) ==
    /\ Len(p) <= Len(q)
    /\ SubSeq(q, 1, Len(p)) = p

Drop(q, n) == SubSeq(q, n + 1, Len(q))

\* The document with the leaves `entries`, a set of <<path, leaf>> pairs.
Obj(entries) ==
    [p \in { e[1] : e \in entries } |-> (CHOOSE e \in entries : e[1] = p)[2]]

\* Whether the JSONPath p selects something in d.
HasPath(d, p) == \E q \in DOMAIN d : IsPrefix(p, q)

\* The leaves of d below p, as <<path relative to `under`, leaf>> pairs.
Below(d, p, under) ==
    { <<under \o Drop(q, Len(p)), d[q]>> : q \in { r \in DOMAIN d : IsPrefix(p, r) } }

\* ResultPath: d with `v` put at path p (p = <<>> is "$": v replaces d).
Put(d, p, v) ==
    Obj({ <<q, d[q]>> : q \in { r \in DOMAIN d : ~IsPrefix(p, r) } }
        \cup Below(v, <<>>, p))

Str(x) == <<x>>

Ref(field, path) == [field |-> field, ref |-> TRUE, src |-> path, val |-> <<>>]

Const(field, leaf) == [field |-> field, ref |-> FALSE, src |-> <<>>, val |-> leaf]

(***************************************************************************)
(* statemachine/processing.asl.json                                        *)
(***************************************************************************)
\* ValidateInput retried as often as the image stages.
ValidateInputRetry_ThreeAttempts ==
    [ErrorEquals |-> {"States.TaskFailed"}, IntervalSeconds |-> 2,
     MaxAttempts |-> 3, BackoffRate |-> 2]

ValidateInputRetry ==
    [ErrorEquals |-> {"States.TaskFailed"}, IntervalSeconds |-> 2,
     MaxAttempts |-> 2, BackoffRate |-> 2]

ResizeImageRetry ==
    [ErrorEquals |-> {"States.TaskFailed"}, IntervalSeconds |-> 5,
     MaxAttempts |-> 3, BackoffRate |-> 2]

AdjustExposureRetry ==
    [ErrorEquals |-> {"States.TaskFailed"}, IntervalSeconds |-> 5,
     MaxAttempts |-> 3, BackoffRate |-> 2]

\* A state without ResultPath has the default "$": its result replaces its
\* input.
DefaultResultPath == <<>>

ValidateInput ==
    [Type |-> "Task", Function |-> "Validator",
     Parameters |-> { Ref(<<"bucket">>, <<"bucket">>), Ref(<<"key">>, <<"key">>) },
     ResultPath |-> DefaultResultPath,
     Retry |-> <<ValidateInputRetry>>,
     Catch |-> << [ErrorEquals |-> {"ValidationError"}, Next |-> "HandleError",
                   ResultPath |-> DefaultResultPath] >>,
     Next |-> "ResizeImage", End |-> FALSE]

ResizeImage ==
    [Type |-> "Task", Function |-> "Resize",
     Parameters |-> { Ref(<<"bucket">>, <<"bucket">>), Ref(<<"key">>, <<"key">>),
                      Const(<<"width">>, Str("1920")),
                      Const(<<"height">>, Str("1080")),
                      Const(<<"maintainAspectRatio">>, Str("true")) },
     ResultPath |-> <<"resizeResult">>,
     Retry |-> <<ResizeImageRetry>>,
     Catch |-> << [ErrorEquals |-> {"States.ALL"}, Next |-> "HandleError",
                   ResultPath |-> <<"error">>] >>,
     Next |-> "AdjustExposure", End |-> FALSE]

AdjustExposure ==
    [Type |-> "Task", Function |-> "Exposure",
     Parameters |-> { Ref(<<"bucket">>, <<"bucket">>),
                      Ref(<<"key">>, <<"resizeResult", "Payload", "outputKey">>),
                      Const(<<"adjustment">>, Str("0.2")) },
     ResultPath |-> <<"exposureResult">>,
     Retry |-> <<AdjustExposureRetry>>,
     Catch |-> << >>,
     Next |-> "RecordSuccess", End |-> FALSE]

RecordSuccess ==
    [Type |-> "Pass", Function |-> "",
     Parameters |-> { Const(<<"status">>, Str("success")),
                      Ref(<<"originalKey">>, <<"key">>),
                      Ref(<<"processedFiles", "resized">>,
                          <<"resizeResult", "Payload", "outputKey">>),
                      Ref(<<"processedFiles", "adjusted">>,
                          <<"exposureResult", "Payload", "outputKey">>),
                      Const(<<"completedAt">>, Str("$$.State.EnteredTime")) },
     ResultPath |-> DefaultResultPath,
     Retry |-> << >>, Catch |-> << >>,
     Next |-> "", End |-> TRUE]

HandleError ==
    [Type |-> "Pass", Function |-> "",
     Parameters |-> { Const(<<"status">>, Str("failed")),
                      Ref(<<"originalKey">>, <<"key">>),
                      Ref(<<"error">>, <<"error">>),
                      Const(<<"failedAt">>, Str("$$.State.EnteredTime")) },
     ResultPath |-> DefaultResultPath,
     Retry |-> << >>, Catch |-> << >>,
     Next |-> "", End |-> TRUE]

StartAt == "ValidateInput"

StateNames ==
    {"ValidateInput", "ResizeImage", "AdjustExposure", "RecordSuccess", "HandleError"}

StateDef(name) ==
    CASE name = "ValidateInput" -> ValidateInput
      [] name = "ResizeImage" -> ResizeImage
      [] name = "AdjustExposure" -> AdjustExposure
      [] name = "RecordSuccess" -> RecordSuccess
      [] OTHER -> HandleError

(***************************************************************************)
(* The step functions (Lambda handlers).  An outcome is a returned JSON    *)
(* document or a thrown error.                                             *)
(***************************************************************************)
Returned(doc) == [ok |-> TRUE, error |-> "", cause |-> "", result |-> doc]

Threw(name, message) ==
    [ok |-> FALSE, error |-> name, cause |-> message, result |-> <<>>]

MAX_FILE_SIZE == 25 * 1024 * 1024

ALLOWED_CONTENT_TYPES == {"image/jpeg", "image/png", "image/webp"}

isAllowedContentType(type) == type \in ALLOWED_CONTENT_TYPES

\* What headObject can answer: an error (err # ""), or the object's metadata,
\* where hasType / hasLength say whether ContentType / ContentLength are there.
HeadError(name) ==
    [err |-> name, hasType |-> FALSE, ContentType |-> "",
     hasLength |-> FALSE, ContentLength |-> 0]

HeadObject(hasType, type, hasLength, length) ==
    [err |-> "", hasType |-> hasType, ContentType |-> type,
     hasLength |-> hasLength, ContentLength |-> length]

HeadResponses ==
    { HeadError("NoSuchKey"), HeadError("NetworkingError"),
      HeadObject(FALSE, "", TRUE, 1024),
      HeadObject(TRUE, "application/pdf", TRUE, 1024),
      HeadObject(TRUE, "image/jpeg", TRUE, 1024),
      HeadObject(TRUE, "image/png", FALSE, 0),
      HeadObject(TRUE, "image/jpeg", TRUE, MAX_FILE_SIZE + 1) }

\* A ValidationResult; contentType and size are left out when undefined.
ValidationResult(isValid, hasType, type, hasLength, length, hasError, error) ==
    Obj({ <<<<"isValid">>, Str(IF isValid THEN "true" ELSE "false")>> }
        \cup (IF hasType THEN { <<<<"contentType">>, Str(type)>> } ELSE {})
        \cup (IF hasLength THEN { <<<<"size">>, Str(ToString(length))>> } ELSE {})
        \cup (IF hasError THEN { <<<<"error">>, Str(error)>> } ELSE {}))

\* A validator that tests the size before the content type.
validatorHandler_SizeFirst(head) ==
    IF head.err = "NoSuchKey"
    THEN Returned(ValidationResult(FALSE, FALSE, "", FALSE, 0, TRUE, "File not found"))
    ELSE IF head.err # ""
    THEN Threw("Error", "Validation failed: " \o head.err)
    ELSE IF ~head.hasType \/ head.ContentType = ""
    THEN Returned(ValidationResult(FALSE, FALSE, "", FALSE, 0, TRUE,
                                   "File has no content type"))
    ELSE IF head.hasLength /\ head.ContentLength # 0
            /\ head.ContentLength > MAX_FILE_SIZE
    THEN Returned(ValidationResult(FALSE, TRUE, head.ContentType, TRUE,
                                   head.ContentLength, TRUE,
                                   "File size (" \o ToString(head.ContentLength)
                                   \o ") exceeds maximum ("
                                   \o ToString(MAX_FILE_SIZE) \o ")"))
    ELSE IF ~isAllowedContentType(head.ContentType)
    THEN Returned(ValidationResult(FALSE, TRUE, head.ContentType, FALSE, 0, TRUE,
                                   "Invalid content type: " \o head.ContentType))
    ELSE Returned(ValidationResult(TRUE, TRUE, head.ContentType, head.hasLength,
                                   head.ContentLength, FALSE, ""))

validatorHandler(head) ==
    IF head.err = "NoSuchKey"
    THEN Returned(ValidationResult(FALSE, FALSE, "", FALSE, 0, TRUE, "File not found"))
    ELSE IF head.err # ""
    THEN Threw("Error", "Validation failed: " \o head.err)
    ELSE IF ~head.hasType \/ head.ContentType = ""
    THEN Returned(ValidationResult(FALSE, FALSE, "", FALSE, 0, TRUE,
                                   "File has no content type"))
    ELSE IF ~isAllowedContentType(head.ContentType)
    THEN Returned(ValidationResult(FALSE, TRUE, head.ContentType, FALSE, 0, TRUE,
                                   "Invalid content type: " \o head.ContentType))
    ELSE IF head.hasLength /\ head.ContentLength # 0
            /\ head.ContentLength > MAX_FILE_SIZE
    THEN Returned(ValidationResult(FALSE, TRUE, head.ContentType, TRUE,
                                   head.ContentLength, TRUE,
                                   "File size (" \o ToString(head.ContentLength)
                                   \o ") exceeds maximum ("
                                   \o ToString(MAX_FILE_SIZE) \o ")"))
    ELSE Returned(ValidationResult(TRUE, TRUE, head.ContentType, head.hasLength,
                                   head.ContentLength, FALSE, ""))

\* s.replace(from, to) with a string pattern: the first occurrence only.
RECURSIVE IndexOf(_, _, _)
IndexOf(s, pat, i) ==
    IF i + Len(pat) - 1 > Len(s) THEN 0
    ELSE IF SubSeq(s, i, i + Len(pat) - 1) = pat THEN i
    ELSE IndexOf(s, pat, i + 1)

\* A replace that replaces nothing.
ReplaceFirst_Keeps(s, from, to) == s

ReplaceFirst(s, from, to) ==
    LET i == IndexOf(s, from, 1)
    IN  IF i = 0 THEN s
        ELSE SubSeq(s, 1, i - 1) \o to \o SubSeq(s, i + Len(from), Len(s))

\* s.replace(/\.[^.]+$/, suffix): the last '.' of s and what follows it, when
\* at least one character follows it.
ReplaceExtension(s, suffix) ==
    LET dots == { i \in DOMAIN s : s[i] = "." }
    IN  IF dots = {} THEN s
        ELSE LET last == CHOOSE i \in dots : \A j \in dots : j <= i
             IN  IF last = Len(s) THEN s
                 ELSE SubSeq(s, 1, last - 1) \o suffix

ProcessedPrefix == <<"p","r","o","c","e","s","s","e","d","/">>

ResizedInfix == <<"-","r","e","s","i","z","e","d","-">>

JpgExtension == <<".","j","p","g">>

ExposureSuffix ==
    <<"-","e","x","p","o","s","u","r","e","-","a","d","j","u","s","t","e","d">>
    \o JpgExtension

ResizeOutputKey(key, w, h) ==
    ReplaceExtension(ReplaceFirst(key, UploadsPrefix, ProcessedPrefix),
                     ResizedInfix \o Digits(w) \o <<"x">> \o Digits(h) \o JpgExtension)

ExposureOutputKey(key) ==
    IF IndexOf(key, ProcessedPrefix, 1) # 0
    THEN ReplaceExtension(key, ExposureSuffix)
    ELSE ReplaceExtension(ReplaceFirst(key, UploadsPrefix, ProcessedPrefix),
                          ExposureSuffix)

\* resizeHandler: any failure is rethrown; otherwise the output key and the
\* dimensions of the encoded image.
resizeHandler(payload) ==
    { Threw("Error", "resize failed"),
      Returned(Obj({ <<<<"outputKey">>, ResizeOutputKey(payload[<<"key">>], 1920, 1080)>>,
                     <<<<"dimensions", "width">>, Str("1920")>>,
                     <<<<"dimensions", "height">>, Str("1080")>>,
                     <<<<"fileSize">>, Str("2048")>> })) }

\* What getObject and sharp's metadata() give the exposure stage: a storage
\* error (err # ""), a response without Body, or an image whose metadata has
\* the given width and height (0 when the field is missing or zero).
GetError(name) == [err |-> name, hasBody |-> FALSE, width |-> 0, height |-> 0]

GetObject(hasBody, width, height) ==
    [err |-> "", hasBody |-> hasBody, width |-> width, height |-> height]

GetResponses ==
    { GetError("ServiceUnavailable"), GetObject(FALSE, 0, 0),
      GetObject(TRUE, 0, 1080), GetObject(TRUE, 1920, 0), GetObject(TRUE, 1920, 1080) }

\* exposureHandler: every failure is rethrown as it is; otherwise the output
\* key, the adjustment and the size of the encoded image.
exposureHandler(payload, got) ==
    IF got.err # "" THEN Threw(got.err, "getObject failed")
    ELSE IF ~got.hasBody THEN Threw("Error", "No body returned")
    ELSE IF got.width = 0 \/ got.height = 0 THEN Threw("Error", "Invalid image data")
    ELSE Returned(Obj({ <<<<"outputKey">>, ExposureOutputKey(payload[<<"key">>])>>,
                        <<<<"adjustment">>, payload[<<"adjustment">>]>>,
                        <<<<"fileSize">>, Str("2048")>> }))

\* The outcomes of invoking a step function with a payload.
LambdaOutcomes(fn, payload) ==
    CASE fn = "Validator" -> { validatorHandler(h) : h \in HeadResponses }
      [] fn = "Resize" -> resizeHandler(payload)
      [] OTHER -> { exposureHandler(payload, g) : g \in GetResponses }

(***************************************************************************)
(* The workflow engine running one execution of the state machine.         *)
(***************************************************************************)
Ev(e, st, doc, err, d) ==
    [ev |-> e, state |-> st, json |-> doc, error |-> err, delay |-> d]

\* The execution input the orchestrator passes: JSON.stringify(input).
JobDoc(input) ==
    Obj({ <<<<"bucket">>, input.bucket>>, <<<<"key">>, input.key>>,
          <<<<"contentType">>, Str(input.contentType)>>,
          <<<<"size">>, Str(ToString(input.size))>>,
          <<<<"uploadedAt">>, Str(input.uploadedAt)>> })

Jobs ==
    { JobDoc(SyncOutcome[r].input) :
        r \in { n \in Notifications : SyncOutcome[n].kind = "start" } }

\* Parameters: every "field.$" must select something in the state's input.
ParamsOk(def, d) == \A prm \in def.Parameters : prm.ref => HasPath(d, prm.src)

EffectiveInput(def, d) ==
    Obj(UNION { IF prm.ref THEN Below(d, prm.src, prm.field)
                ELSE { <<prm.field, prm.val>> } : prm \in def.Parameters })

\* The result of the lambda:invoke integration wraps the function's result.
TaskResult(result) ==
    Put(Obj({ <<<<"StatusCode">>, Str("200")>> }), <<"Payload">>, result)

ErrorDoc(o) ==
    Obj({ <<<<"Error">>, Str(o.error)>>, <<<<"Cause">>, Str(o.cause)>> })

\* ErrorEquals: States.ALL matches every error name, States.TaskFailed every
\* error but States.Timeout.
ErrorMatches(errorEquals, err) ==
    \/ err \in errorEquals
    \/ "States.ALL" \in errorEquals
    \/ "States.TaskFailed" \in errorEquals /\ err # "States.Timeout"

RECURSIVE Pow(_, _)
Pow(b, n) == IF n = 0 THEN 1 ELSE b * Pow(b, n - 1)

\* The wait before retry number n + 1.
RetryDelay(r, n) == r.IntervalSeconds * Pow(r.BackoffRate, n)

MatchingRetriers(def, err) ==
    { i \in DOMAIN def.Retry : ErrorMatches(def.Retry[i].ErrorEquals, err) }

MatchingCatchers(def, err) ==
    { i \in DOMAIN def.Catch : ErrorMatches(def.Catch[i].ErrorEquals, err) }

First(S) == CHOOSE i \in S : \A j \in S : i <= j

\* What the engine does when a Task's function has failed with `err` after n
\* retries: the first matching retrier while it has attempts left, else the
\* first matching catcher, else the execution fails.
OnTaskFailure(def, err, n) ==
    LET rs == MatchingRetriers(def, err)
        cs == MatchingCatchers(def, err)
    IN  IF rs # {} /\ n < def.Retry[First(rs)].MaxAttempts
        THEN [do |-> "retry", delay |-> RetryDelay(def.Retry[First(rs)], n),
              next |-> "", resultPath |-> <<>>]
        ELSE IF cs # {}
        THEN [do |-> "catch", delay |-> 0, next |-> def.Catch[First(cs)].Next,
              resultPath |-> def.Catch[First(cs)].ResultPath]
        ELSE [do |-> "fail", delay |-> 0, next |-> "", resultPath |-> <<>>]

\* One execution of the state machine, from an input the orchestrator gives;
\* the orchestrator itself stays idle.
InitWF ==
    /\ now = 0
    /\ hpc = "idle"
    /\ batch = <<>>
    /\ mapIdx = 1
    /\ recs = <<>>
    /\ executions = {}
    /\ failedLog = {}
    /\ invocations = 0
    /\ fnPc = "idle"
    /\ fnArg = <<>>
    /\ fnOut = <<>>
    /\ wfStatus = "RUNNING"
    /\ wfState = StartAt
    /\ wfData \in Jobs
    /\ wfRetries = 0
    /\ wfHistory = << Ev("StateEntered", StartAt, wfData, "", 0) >>

\* The engine moves on from the current state with output `out`.
MoveOn(def, out, events) ==
    IF def.End
    THEN /\ wfStatus' = "SUCCEEDED"
         /\ wfHistory' = wfHistory \o events
                           \o << Ev("ExecutionSucceeded", wfState, out, "", 0) >>
         /\ wfData' = out
         /\ UNCHANGED <<wfState, wfRetries>>
    ELSE /\ wfState' = def.Next
         /\ wfData' = out
         /\ wfRetries' = 0
         /\ wfHistory' = wfHistory \o events
                           \o << Ev("StateEntered", def.Next, out, "", 0) >>
         /\ UNCHANGED wfStatus

\* The engine goes to `target` with `out` (a Catch transition).
GoTo(target, out, events) ==
    /\ wfState' = target
    /\ wfData' = out
    /\ wfRetries' = 0
    /\ wfHistory' = wfHistory \o events
                      \o << Ev("StateEntered", target, out, "", 0) >>
    /\ UNCHANGED wfStatus

\* A "field.$" of the state's Parameters selects nothing: States.Runtime, which
\* no Retry or Catch handles.
ParametersUnresolved ==
    /\ wfStatus = "RUNNING"
    /\ ~ParamsOk(StateDef(wfState), wfData)
    /\ wfStatus' = "FAILED"
    /\ wfHistory' = wfHistory
                      \o << Ev("ExecutionFailed", wfState, <<>>, "States.Runtime", 0) >>
    /\ UNCHANGED <<wfState, wfData, wfRetries>>
    /\ UNCHANGED <<orchVars, fnVars>>

\* The current state produces its result: a Task's function returns, a Pass
\* state passes its Parameters on.
StateCompletes ==
    /\ wfStatus = "RUNNING"
    /\ LET def == StateDef(wfState)
           eff == EffectiveInput(def, wfData)
       IN  /\ ParamsOk(def, wfData)
           /\ IF def.Type = "Task"
              THEN \E o \in LambdaOutcomes(def.Function, eff) :
                     /\ o.ok
                     /\ MoveOn(def, Put(wfData, def.ResultPath, TaskResult(o.result)),
                               << Ev("LambdaInvoked", wfState, eff, "", 0),
                                  Ev("LambdaSucceeded", wfState, o.result, "", 0) >>)
              ELSE MoveOn(def, Put(wfData, def.ResultPath, eff), << >>)
    /\ UNCHANGED <<orchVars, fnVars>>

\* The current Task's function throws: retry, catch, or fail the execution.
TaskFails ==
    /\ wfStatus = "RUNNING"
    /\ LET def == StateDef(wfState)
           eff == EffectiveInput(def, wfData)
       IN  /\ def.Type = "Task"
           /\ ParamsOk(def, wfData)
           /\ \E o \in LambdaOutcomes(def.Function, eff) :
                /\ ~o.ok
                /\ LET events == << Ev("LambdaInvoked", wfState, eff, "", 0),
                                    Ev("LambdaFailed", wfState, ErrorDoc(o), o.error, 0) >>
                       todo == OnTaskFailure(def, o.error, wfRetries)
                   IN  CASE todo.do = "retry" ->
                              /\ wfRetries' = wfRetries + 1
                              /\ wfHistory' = wfHistory \o events
                                   \o << Ev("RetryWait", wfState, <<>>, "", todo.delay) >>
                              /\ UNCHANGED <<wfStatus, wfState, wfData>>
                         [] todo.do = "catch" ->
                              GoTo(todo.next,
                                   Put(wfData, todo.resultPath, ErrorDoc(o)), events)
                         [] OTHER ->
                              /\ wfStatus' = "FAILED"
                              /\ wfHistory' = wfHistory \o events
                                   \o << Ev("ExecutionFailed", wfState, <<>>, o.error, 0) >>
                              /\ UNCHANGED <<wfState, wfData, wfRetries>>
    /\ UNCHANGED <<orchVars, fnVars>>

\* A timeout that also strikes an execution that has already ended.
ExecutionTimesOut_AfterTerminal ==
    /\ wfStatus # "TIMED_OUT"
    /\ wfStatus' = "TIMED_OUT"
    /\ wfHistory' = wfHistory
                      \o << Ev("ExecutionTimedOut", wfState, <<>>, "States.Timeout", 0) >>
    /\ UNCHANGED <<wfState, wfData, wfRetries>>
    /\ UNCHANGED <<orchVars, fnVars>>

\* TimeoutSeconds: the execution is abandoned.
ExecutionTimesOut ==
    /\ wfStatus = "RUNNING"
    /\ wfStatus' = "TIMED_OUT"
    /\ wfHistory' = wfHistory
                      \o << Ev("ExecutionTimedOut", wfState, <<>>, "States.Timeout", 0) >>
    /\ UNCHANGED <<wfState, wfData, wfRetries>>
    /\ UNCHANGED <<orchVars, fnVars>>

NextWF ==
    \/ ParametersUnresolved
    \/ StateCompletes
    \/ TaskFails
    \/ ExecutionTimesOut

WorkflowSpec == InitWF /\ [][NextWF]_vars

\* The AdjustExposure state run on its own, from an input that carries what
\* ResizeImage adds under its ResultPath for the job (or from the bare job).
ExposureStepInputs ==
    Jobs \cup
    { Put(j, ResizeImage.ResultPath, TaskResult(o.result)) :
        <<j, o>> \in { jo \in Jobs \X UNION { resizeHandler(EffectiveInput(ResizeImage, j))
                                                 : j \in Jobs } :
                         /\ jo[2].ok
                         /\ jo[2] \in resizeHandler(EffectiveInput(ResizeImage, jo[1])) } }

InitExposureStep ==
    /\ now = 0
    /\ hpc = "idle"
    /\ batch = <<>>
    /\ mapIdx = 1
    /\ recs = <<>>
    /\ executions = {}
    /\ failedLog = {}
    /\ invocations = 0
    /\ fnPc = "idle"
    /\ fnArg = <<>>
    /\ fnOut = <<>>
    /\ wfStatus = "RUNNING"
    /\ wfState = "AdjustExposure"
    /\ wfData \in ExposureStepInputs
    /\ wfRetries = 0
    /\ wfHistory = << Ev("StateEntered", "AdjustExposure", wfData, "", 0) >>

ExposureStepSpec == InitExposureStep /\ [][NextWF]_vars

\* The engine keeps working on a running execution: it always takes some step
\* that is possible (at the latest the timeout).
WorkflowFairSpec == InitWF /\ [][NextWF]_vars /\ WF_vars(NextWF)

(***************************************************************************)
(* The validator invoked on its own: the object's headObject answer is     *)
(* drawn from ValidatorHeads, the handler sends the command and answers    *)
(* when it settles.                                                        *)
(***************************************************************************)
\* The error names S3 reports a missing object under: NoSuchKey (the name the
\* handler tests) and NotFound (the name of HeadObject's 404, which has no
\* body to carry an error code).
MissingObjectErrors == {"NoSuchKey", "NotFound"}

HeadContentTypes ==
    {"", "application/pdf", "image/gif", "image/jpeg", "image/png", "image/webp"}

HeadContentLengths == {0, 1024, MAX_FILE_SIZE, MAX_FILE_SIZE + 1}

ValidatorHeads ==
    HeadResponses
    \cup { HeadError(e) : e \in MissingObjectErrors \cup {"AccessDenied"} }
    \cup { HeadObject(FALSE, "", TRUE, n) : n \in HeadContentLengths }
    \cup { HeadObject(TRUE, t, TRUE, n) : t \in HeadContentTypes, n \in HeadContentLengths }
    \cup { HeadObject(TRUE, t, FALSE, 0) : t \in HeadContentTypes }

InitValidator ==
    /\ now = 0
    /\ hpc = "idle"
    /\ batch = <<>>
    /\ mapIdx = 1
    /\ recs = <<>>
    /\ executions = {}
    /\ failedLog = {}
    /\ invocations = 0
    /\ wfStatus = "NOT_STARTED"
    /\ wfState = ""
    /\ wfData = <<>>
    /\ wfRetries = 0
    /\ wfHistory = <<>>
    /\ fnPc = "start"
    /\ fnArg \in ValidatorHeads
    /\ fnOut = <<>>

\* await s3Client.send(new HeadObjectCommand(...))
ValidatorSendsHead ==
    /\ fnPc = "start"
    /\ fnPc' = "awaitHead"
    /\ UNCHANGED <<fnArg, fnOut>>
    /\ UNCHANGED <<orchVars, wfVars>>

\* The command settles and the handler returns or throws.
ValidatorAnswers ==
    /\ fnPc = "awaitHead"
    /\ fnPc' = "done"
    /\ fnOut' = validatorHandler(fnArg)
    /\ UNCHANGED fnArg
    /\ UNCHANGED <<orchVars, wfVars>>

NextValidator ==
    \/ ValidatorSendsHead
    \/ ValidatorAnswers

ValidatorSpec == InitValidator /\ [][NextValidator]_vars

(***************************************************************************)
(* generateFileKey (shared/s3-utils.ts).                                   *)
(***************************************************************************)
\* The characters /[^a-zA-Z0-9.-]/ does not match.
KeptChars ==
    { "a","b","c","d","e","f","g","h","i","j","k","l","m",
      "n","o","p","q","r","s","t","u","v","w","x","y","z",
      "A","B","C","D","E","F","G","H","I","J","K","L","M",
      "N","O","P","Q","R","S","T","U","V","W","X","Y","Z",
      "0","1","2","3","4","5","6","7","8","9", ".", "-" }

\* A sanitizer that drops the characters it does not keep.
Sanitize_Drops(filename) == SelectSeq(filename, LAMBDA c : c \in KeptChars)

\* filename.replace(/[^a-zA-Z0-9.-]/g, '_')
Sanitize(filename) ==
    [i \in DOMAIN filename |-> IF filename[i] \in KeptChars THEN filename[i] ELSE "_"]

\* The prefix parameter's default.
DefaultPrefix == <<"u","p","l","o","a","d","s">>

\* Math.random().toString(36).substring(2, 15): what it can give is drawn from
\* RandomIds; nothing keeps two calls from drawing the same.
RandomIds == { <<"k","3">>, <<"z","q","7">> }

\* `${prefix}/${timestamp}-${randomId}-${sanitizedFilename}`
generateFileKey(filename, prefix, timestamp, randomId) ==
    prefix \o <<"/">> \o Digits(timestamp) \o <<"-">> \o randomId \o <<"-">>
        \o Sanitize(filename)

(***************************************************************************)
(* presignedUrlHandler (handlers/presigned-url.ts).                        *)
(***************************************************************************)
\* event.body: text that is no JSON, the JSON null, or an object with some of
\* filename, contentType, fileSize (an absent body counts as the object {}).
BodyNotJson ==
    [kind |-> "invalid", hasFilename |-> FALSE, filename |-> <<>>,
     hasType |-> FALSE, contentType |-> "", hasSize |-> FALSE, fileSize |-> 0]

BodyNull == [BodyNotJson EXCEPT !.kind = "null"]

UploadRequest(hasFilename, filename, hasType, contentType, hasSize, fileSize) ==
    [kind |-> "object", hasFilename |-> hasFilename, filename |-> filename,
     hasType |-> hasType, contentType |-> contentType,
     hasSize |-> hasSize, fileSize |-> fileSize]

RequestFilenames == { <<>>, <<"a"," ","@",".","j","p","g">> }

RequestContentTypes == {"", "text/plain", "image/jpeg", "image/webp"}

RequestFileSizes == {-1, 0, 1, 1024, MAX_FILE_SIZE, MAX_FILE_SIZE + 1}

PresignBodies ==
    {BodyNotJson, BodyNull}
    \cup { UploadRequest(hf, IF hf THEN f ELSE <<>>, ht, IF ht THEN t ELSE "",
                         hs, IF hs THEN n ELSE 0) :
             hf \in BOOLEAN, f \in RequestFilenames,
             ht \in BOOLEAN, t \in RequestContentTypes,
             hs \in BOOLEAN, n \in RequestFileSizes }

\* ALLOWED_CONTENT_TYPES.join(', ')
AllowedContentTypesJoined == "image/jpeg, image/png, image/webp"

Response(statusCode, body) == [statusCode |-> statusCode, body |-> body]

ErrorBody(message) == Obj({ <<<<"error">>, Str(message)>> })

\* new Date(ms).toISOString(), for the instants of January 1970.
Pad(n, width) ==
    IF width = 3 /\ n < 10 THEN "00" \o ToString(n)
    ELSE IF (width = 3 /\ n < 100) \/ (width = 2 /\ n < 10) THEN "0" \o ToString(n)
    ELSE ToString(n)

ToISOString(ms) ==
    LET day == ms \div 86400000
        inDay == ms % 86400000
    IN  "1970-01-" \o Pad(day + 1, 2) \o "T"
        \o Pad(inDay \div 3600000, 2) \o ":"
        \o Pad((inDay % 3600000) \div 60000, 2) \o ":"
        \o Pad((inDay % 60000) \div 1000, 2) \o "."
        \o Pad(inDay % 1000, 3) \o "Z"

\* The three validations, size before content type.
presignValidation_SizeBeforeType(body) ==
    IF \/ ~body.hasFilename \/ body.filename = <<>>
       \/ ~body.hasType \/ body.contentType = ""
       \/ ~body.hasSize \/ body.fileSize = 0
    THEN "missing"
    ELSE IF body.fileSize > MAX_FILE_SIZE THEN "size"
    ELSE IF ~isAllowedContentType(body.contentType) THEN "type"
    ELSE "ok"

\* The three validations of a parsed body, in the handler's order.
presignValidation(body) ==
    IF \/ ~body.hasFilename \/ body.filename = <<>>
       \/ ~body.hasType \/ body.contentType = ""
       \/ ~body.hasSize \/ body.fileSize = 0
    THEN "missing"
    ELSE IF ~isAllowedContentType(body.contentType) THEN "type"
    ELSE IF body.fileSize > MAX_FILE_SIZE THEN "size"
    ELSE "ok"

\* What the try block does with the request before it awaits the signer: it
\* throws, returns a response, or goes on with a key and a PutObjectCommand.
presignTry(body, t, randomId) ==
    IF body.kind = "invalid"
    THEN [kind |-> "throw", err |-> "SyntaxError: Unexpected token", res |-> <<>>]
    ELSE IF body.kind = "null"
    THEN [kind |-> "throw", err |-> "TypeError: Cannot read properties of null",
          res |-> <<>>]
    ELSE LET v == presignValidation(body)
         IN  CASE v = "missing" ->
                   [kind |-> "return", err |-> "",
                    res |-> Response(400, ErrorBody(
                        "Missing required fields: filename, contentType, fileSize"))]
               [] v = "type" ->
                   [kind |-> "return", err |-> "",
                    res |-> Response(400, ErrorBody(
                        "Invalid content type. Allowed: " \o AllowedContentTypesJoined))]
               [] v = "size" ->
                   [kind |-> "return", err |-> "",
                    res |-> Response(400, ErrorBody(
                        "File size exceeds maximum of "
                        \o ToString((MAX_FILE_SIZE \div 1024) \div 1024) \o "MB"))]
               [] OTHER ->
                   [kind |-> "sign", err |-> "",
                    res |-> [Key |-> generateFileKey(body.filename, DefaultPrefix,
                                                     t, randomId),
                             ContentType |-> body.contentType,
                             ContentLength |-> body.fileSize]]

\* A catch block that puts the exception's message into the response.
presignCatch_LeaksDetail(err) == Response(500, ErrorBody(err))

\* The catch block: whatever was thrown, the same 500.
presignCatch(err) == Response(500, ErrorBody("Internal server error"))

\* new Date(Date.now() + 3600) : the lifetime taken for milliseconds.
presignExpiresAt_Seconds(t) == ToISOString(t + 3600)

\* new Date(Date.now() + 3600 * 1000).toISOString()
presignExpiresAt(t) == ToISOString(t + 3600 * 1000)

\* getSignedUrl(s3Client, command, {expiresIn}): a URL that carries the
\* command, its lifetime in seconds and the instant it was signed at.
getSignedUrl(command, expiresIn, t) ==
    [command |-> command, expiresIn |-> expiresIn, signedAt |-> t]

InitPresign ==
    /\ now = 0
    /\ hpc = "idle"
    /\ batch = <<>>
    /\ mapIdx = 1
    /\ recs = <<>>
    /\ executions = {}
    /\ failedLog = {}
    /\ invocations = 0
    /\ wfStatus = "NOT_STARTED"
    /\ wfState = ""
    /\ wfData = <<>>
    /\ wfRetries = 0
    /\ wfHistory = <<>>
    /\ fnPc = "start"
    /\ fnArg \in [body : PresignBodies, signerFails : BOOLEAN]
    /\ fnOut = <<>>

\* The handler up to `await getSignedUrl(...)`.
PresignBegins ==
    /\ fnPc = "start"
    /\ \E randomId \in RandomIds :
         LET o == presignTry(fnArg.body, now, randomId)
         IN  CASE o.kind = "throw" ->
                   /\ fnPc' = "done"
                   /\ fnOut' = presignCatch(o.err)
               [] o.kind = "return" ->
                   /\ fnPc' = "done"
                   /\ fnOut' = o.res
               [] OTHER ->
                   /\ fnPc' = "awaitSign"
                   /\ fnOut' = o.res
    /\ UNCHANGED fnArg
    /\ UNCHANGED <<orchVars, wfVars>>

\* The signer signs the command (fnOut then holds key and URL), or fails and
\* the catch block answers.
SignerSettles ==
    /\ fnPc = "awaitSign"
    /\ IF fnArg.signerFails
       THEN /\ fnPc' = "done"
            /\ fnOut' = presignCatch("CredentialsProviderError")
       ELSE /\ fnPc' = "signed"
            /\ fnOut' = [key |-> fnOut.Key,
                         uploadUrl |-> getSignedUrl(fnOut, 3600, now)]
    /\ UNCHANGED fnArg
    /\ UNCHANGED <<orchVars, wfVars>>

\* The handler resumes after the await and returns the 200 response.
PresignResponds ==
    /\ fnPc = "signed"
    /\ fnPc' = "done"
    /\ fnOut' = Response(200, Obj({ <<<<"uploadUrl">>, fnOut.uploadUrl>>,
                                    <<<<"key">>, fnOut.key>>,
                                    <<<<"expiresAt">>, Str(presignExpiresAt(now))>> }))
    /\ UNCHANGED fnArg
    /\ UNCHANGED <<orchVars, wfVars>>

NextPresign ==
    \/ Tick
    \/ PresignBegins
    \/ SignerSettles
    \/ PresignResponds

PresignSpec == InitPresign /\ [][NextPresign]_vars

(***************************************************************************)
(* generateFileKey called on its own: once, for any filename of the bound  *)
(* (KeySpec), and twice, for some filenames (KeyPairSpec).                 *)
(***************************************************************************)
NameChars == {"a", "Z", "7", ".", "-", "_", " ", "@", "/"}

Filenames == UNION { [1..n -> NameChars] : n \in 0..MaxNameLen }

CustomPrefix == <<"c","-","f">>

InitKey ==
    /\ now = 0
    /\ hpc = "idle"
    /\ batch = <<>>
    /\ mapIdx = 1
    /\ recs = <<>>
    /\ executions = {}
    /\ failedLog = {}
    /\ invocations = 0
    /\ wfStatus = "NOT_STARTED"
    /\ wfState = ""
    /\ wfData = <<>>
    /\ wfRetries = 0
    /\ wfHistory = <<>>
    /\ fnPc = "start"
    /\ fnArg \in [filename : Filenames, hasPrefix : BOOLEAN]
    /\ fnOut = <<>>

\* One call: generateFileKey(filename) or generateFileKey(filename, prefix).
GenerateKey ==
    /\ fnPc = "start"
    /\ \E randomId \in RandomIds :
         fnOut' = [timestamp |-> now, randomId |-> randomId,
                   key |-> generateFileKey(fnArg.filename,
                                           IF fnArg.hasPrefix THEN CustomPrefix
                                           ELSE DefaultPrefix,
                                           now, randomId)]
    /\ fnPc' = "done"
    /\ UNCHANGED fnArg
    /\ UNCHANGED <<orchVars, wfVars>>

NextKey ==
    \/ Tick
    \/ GenerateKey

KeySpec == InitKey /\ [][NextKey]_vars

PairFilenames == { <<"a">>, <<"b","-","c">>, <<"k","3","-","a">>, <<>> }

InitKeyPair ==
    /\ now = 0
    /\ hpc = "idle"
    /\ batch = <<>>
    /\ mapIdx = 1
    /\ recs = <<>>
    /\ executions = {}
    /\ failedLog = {}
    /\ invocations = 0
    /\ wfStatus = "NOT_STARTED"
    /\ wfState = ""
    /\ wfData = <<>>
    /\ wfRetries = 0
    /\ wfHistory = <<>>
    /\ fnPc = "issuing"
    /\ fnArg = <<>>
    /\ fnOut = <<>>

\* One of two calls of generateFileKey(filename); fnOut lists what was issued.
IssueKey ==
    /\ fnPc = "issuing"
    /\ Len(fnOut) < 2
    /\ \E filename \in PairFilenames, randomId \in RandomIds :
         fnOut' = Append(fnOut,
                         [filename |-> filename, timestamp |-> now,
                          randomId |-> randomId,
                          key |-> generateFileKey(filename, DefaultPrefix,
                                                  now, randomId)])
    /\ UNCHANGED <<fnPc, fnArg>>
    /\ UNCHANGED <<orchVars, wfVars>>

NextKeyPair ==
    \/ Tick
    \/ IssueKey

KeyPairSpec == InitKeyPair /\ [][NextKeyPair]_vars

(***************************************************************************)
(* imageProcessor.resize (resize handler): the dimensions handed to sharp. *)
(* A width or height of 0 stands for one that is absent: the code tests    *)
(* both with || and &&, for which undefined and 0 are alike.  Quotients    *)
(* are exact, where the code's are IEEE doubles.                           *)
(***************************************************************************)
\* Math.round(num / den) for num >= 0, den > 0: halves go up.
RoundDiv_Truncates(num, den) == num \div den

RoundDiv(num, den) == (2 * num + den) \div (2 * den)

\* A resize whose scale is the larger of the two ratios.
resizeTarget_LargerRatio(width, height, maintainAspectRatio, metaWidth, metaHeight) ==
    LET w0 == IF width # 0 THEN width ELSE IF metaWidth # 0 THEN metaWidth ELSE 1920
        h0 == IF height # 0 THEN height ELSE IF metaHeight # 0 THEN metaHeight ELSE 1080
    IN  IF maintainAspectRatio # "false" /\ metaWidth # 0 /\ metaHeight # 0
        THEN IF width # 0 /\ height = 0
             THEN [targetWidth |-> w0,
                   targetHeight |-> RoundDiv(width * metaHeight, metaWidth)]
             ELSE IF height # 0 /\ width = 0
             THEN [targetWidth |-> RoundDiv(height * metaWidth, metaHeight),
                   targetHeight |-> h0]
             ELSE IF width # 0 /\ height # 0
             THEN IF width * metaHeight >= height * metaWidth
                  THEN [targetWidth |-> RoundDiv(metaWidth * width, metaWidth),
                        targetHeight |-> RoundDiv(metaHeight * width, metaWidth)]
                  ELSE [targetWidth |-> RoundDiv(metaWidth * height, metaHeight),
                        targetHeight |-> RoundDiv(metaHeight * height, metaHeight)]
             ELSE [targetWidth |-> w0, targetHeight |-> h0]
        ELSE [targetWidth |-> w0, targetHeight |-> h0]

\* targetWidth and targetHeight as resize computes them before it calls sharp;
\* maintainAspectRatio is "undefined" (the parameter's default, true), "true"
\* or "false".
resizeTarget(width, height, maintainAspectRatio, metaWidth, metaHeight) ==
    LET w0 == IF width # 0 THEN width ELSE IF metaWidth # 0 THEN metaWidth ELSE 1920
        h0 == IF height # 0 THEN height ELSE IF metaHeight # 0 THEN metaHeight ELSE 1080
    IN  IF maintainAspectRatio # "false" /\ metaWidth # 0 /\ metaHeight # 0
        THEN IF width # 0 /\ height = 0
             THEN [targetWidth |-> w0,
                   targetHeight |-> RoundDiv(width * metaHeight, metaWidth)]
             ELSE IF height # 0 /\ width = 0
             THEN [targetWidth |-> RoundDiv(height * metaWidth, metaHeight),
                   targetHeight |-> h0]
             ELSE IF width # 0 /\ height # 0
             THEN IF width * metaHeight <= height * metaWidth
                  THEN [targetWidth |-> RoundDiv(metaWidth * width, metaWidth),
                        targetHeight |-> RoundDiv(metaHeight * width, metaWidth)]
                  ELSE [targetWidth |-> RoundDiv(metaWidth * height, metaHeight),
                        targetHeight |-> RoundDiv(metaHeight * height, metaHeight)]
             ELSE [targetWidth |-> w0, targetHeight |-> h0]
        ELSE [targetWidth |-> w0, targetHeight |-> h0]

\* The calls of resize that are tried: every small source and target, and
\* some of the size of a photograph.
ResizeCalls ==
    [width : 0..MaxDim, height : 0..MaxDim,
     maintainAspectRatio : {"undefined", "true", "false"},
     metaWidth : 0..MaxDim, metaHeight : 0..MaxDim]
    \cup [width : {0, 1920, 960}, height : {0, 1080, 1000},
          maintainAspectRatio : {"undefined", "false"},
          metaWidth : {3840, 4000, 800}, metaHeight : {2160, 3000}]

InitResizeTarget ==
    /\ now = 0
    /\ hpc = "idle"
    /\ batch = <<>>
    /\ mapIdx = 1
    /\ recs = <<>>
    /\ executions = {}
    /\ failedLog = {}
    /\ invocations = 0
    /\ wfStatus = "NOT_STARTED"
    /\ wfState = ""
    /\ wfData = <<>>
    /\ wfRetries = 0
    /\ wfHistory = <<>>
    /\ fnPc = "start"
    /\ fnArg \in ResizeCalls
    /\ fnOut = <<>>

\* resize up to its call of sharp's resize(targetWidth, targetHeight, ...).
ComputeTarget ==
    /\ fnPc = "start"
    /\ fnOut' = resizeTarget(fnArg.width, fnArg.height, fnArg.maintainAspectRatio,
                             fnArg.metaWidth, fnArg.metaHeight)
    /\ fnPc' = "done"
    /\ UNCHANGED fnArg
    /\ UNCHANGED <<orchVars, wfVars>>

NextResizeTarget == ComputeTarget

ResizeTargetSpec == InitResizeTarget /\ [][NextResizeTarget]_vars

(***************************************************************************)
(* resizeHandler (resize handler), one invocation with its calls of S3 and *)
(* of the image processor.  fnArg is the event together with the metadata  *)
(* of the object it names; fnOut holds the objects written (store), the    *)
(* Metadata of the response, the processor's output (image), the           *)
(* PutObjectCommand sent, the error the catch block caught and the outcome.*)
(***************************************************************************)
RECURSIVE JoinChars(_)
JoinChars(s) == IF s = <<>> THEN "" ELSE s[1] \o JoinChars(Tail(s))

\* { ...base, ...over }
Spread(base, over) ==
    Obj({ <<q, base[q]>> : q \in DOMAIN base \ DOMAIN over }
        \cup { <<q, over[q]>> : q \in DOMAIN over })

NoMetadata == Obj({})

KeyDotInFolder == <<"u","p","l","o","a","d","s","/","v",".","1","/","a">>

\* The events tried: the keys uploads/a.png, uploads/a.b.jpg, uploads/a and
\* uploads/v.1/a, of objects with no metadata, with an author, and with an
\* author and a processing-step.
ResizeEvents ==
    [bucket : {BucketName},
     key : { <<"u","p","l","o","a","d","s","/","a",".","p","n","g">>,
             <<"u","p","l","o","a","d","s","/","a",".","b",".","j","p","g">>,
             <<"u","p","l","o","a","d","s","/","a">>,
             KeyDotInFolder },
     Metadata : { NoMetadata,
                  Obj({ <<<<"author">>, Str("ann")>> }),
                  Obj({ <<<<"author">>, Str("ann")>>,
                        <<<<"processing-step">>, Str("upload")>> }) }]

\* What s3Client.send(getCommand) and streamToBuffer can give: a storage
\* error, a response without Body, a Body whose stream fails, a Body read.
ResizeGetResponses == {"AccessDenied", "NoBody", "StreamError", "Body"}

\* What processor.resize can give: sharp rejecting the input, sharp failing to
\* encode the output, or the output with its metadata's width and height.
ProcessorError(message) == [ok |-> FALSE, message |-> message, width |-> 0, height |-> 0]

ProcessorOutput(width, height) ==
    [ok |-> TRUE, message |-> "", width |-> width, height |-> height]

ProcessorResults ==
    { ProcessorError("Input buffer contains unsupported image format"),
      ProcessorError("VipsJpeg: write error"),
      ProcessorOutput(1920, 1080), ProcessorOutput(3, 2) }

NoCommand == [Bucket |-> <<>>, Key |-> <<>>, ContentType |-> "", Metadata |-> NoMetadata]

NoOutcome == [ok |-> FALSE, error |-> "", cause |-> "", result |-> <<>>]

\* A handler that reports a failure as a generic error.
resizeCatch_Wraps(error) == Threw("Error", "Resize failed")

\* catch (error) { logger.error(...); throw error; }
resizeCatch(error) == error

\* The PutObjectCommand of the resized image.
ResizePutCommand(event, Metadata, outputKey, width, height) ==
    [Bucket |-> event.bucket, Key |-> outputKey, ContentType |-> "image/jpeg",
     Metadata |->
        Spread(Metadata,
               Obj({ <<<<"processing-step">>, Str("resize")>>,
                     <<<<"original-key">>, event.key>>,
                     <<<<"dimensions">>, Digits(width) \o <<"x">> \o Digits(height)>>,
                     <<<<"processed-at">>, Str(ToISOString(now))>> }))]

\* The ResizeResult returned.
ResizeResult(outputKey, width, height) ==
    Obj({ <<<<"outputKey">>, outputKey>>,
          <<<<"dimensions", "width">>, Str(ToString(width))>>,
          <<<<"dimensions", "height">>, Str(ToString(height))>>,
          <<<<"fileSize">>, Str("2048")>> })

InitResize ==
    /\ now = 0
    /\ hpc = "idle"
    /\ batch = <<>>
    /\ mapIdx = 1
    /\ recs = <<>>
    /\ executions = {}
    /\ failedLog = {}
    /\ invocations = 0
    /\ wfStatus = "NOT_STARTED"
    /\ wfState = ""
    /\ wfData = <<>>
    /\ wfRetries = 0
    /\ wfHistory = <<>>
    /\ fnPc = "start"
    /\ fnArg \in ResizeEvents
    /\ fnOut = [store |-> {}, Metadata |-> NoMetadata, image |-> ProcessorOutput(0, 0),
                command |-> NoCommand, caught |-> NoOutcome, outcome |-> NoOutcome]

\* The handler is invoked and awaits s3Client.send(getCommand).
ResizeSendsGet ==
    /\ fnPc = "start"
    /\ fnPc' = "getting"
    /\ UNCHANGED <<fnArg, fnOut>>
    /\ UNCHANGED <<orchVars, wfVars>>

\* The download settles: a failure goes to the catch block, a Body read is
\* handed to processor.resize.
ResizeGetSettles ==
    /\ fnPc = "getting"
    /\ \E response \in ResizeGetResponses :
         IF response = "Body"
         THEN /\ fnPc' = "resizing"
              /\ fnOut' = [fnOut EXCEPT !.Metadata = fnArg.Metadata]
         ELSE LET error == IF response = "NoBody"
                           THEN Threw("Error", "No body returned for "
                                               \o JoinChars(fnArg.key))
                           ELSE IF response = "StreamError"
                           THEN Threw("Error", "aborted")
                           ELSE Threw(response, "getObject failed")
              IN  /\ fnPc' = "done"
                  /\ fnOut' = [fnOut EXCEPT !.caught = error,
                                            !.outcome = resizeCatch(error)]
    /\ UNCHANGED fnArg
    /\ UNCHANGED <<orchVars, wfVars>>

\* processor.resize settles: a failure goes to the catch block, otherwise the
\* output key is derived and the handler awaits s3Client.send(putCommand).
ResizeProcessorSettles ==
    /\ fnPc = "resizing"
    /\ \E r \in ProcessorResults :
         IF r.ok
         THEN /\ fnPc' = "putting"
              /\ fnOut' = [fnOut EXCEPT !.image = r,
                                        !.command =
                             ResizePutCommand(fnArg, fnOut.Metadata,
                                              ResizeOutputKey(fnArg.key, r.width, r.height),
                                              r.width, r.height)]
         ELSE /\ fnPc' = "done"
              /\ fnOut' = [fnOut EXCEPT !.caught = Threw("Error", r.message),
                                        !.outcome =
                             resizeCatch(Threw("Error", r.message))]
    /\ UNCHANGED fnArg
    /\ UNCHANGED <<orchVars, wfVars>>

\* The upload settles: the object is written and the result returned, or the
\* failure goes to the catch block.
ResizePutSettles ==
    /\ fnPc = "putting"
    /\ \E stored \in BOOLEAN :
         IF stored
         THEN fnOut' = [fnOut EXCEPT !.store = fnOut.store \cup {fnOut.command},
                                     !.outcome =
                          Returned(ResizeResult(fnOut.command.Key, fnOut.image.width,
                                                fnOut.image.height))]
         ELSE fnOut' = [fnOut EXCEPT !.caught =
                          Threw("ServiceUnavailable", "putObject failed"),
                                     !.outcome =
                          resizeCatch(Threw("ServiceUnavailable", "putObject failed"))]
    /\ fnPc' = "done"
    /\ UNCHANGED fnArg
    /\ UNCHANGED <<orchVars, wfVars>>

NextResize ==
    \/ Tick
    \/ ResizeSendsGet
    \/ ResizeGetSettles
    \/ ResizeProcessorSettles
    \/ ResizePutSettles

ResizeSpec == InitResize /\ [][NextResize]_vars

(***************************************************************************)
(* exposureProcessor.adjustExposure (handlers/exposure.ts).  An adjustment *)
(* is counted in thousandths and a sharp parameter in ten-thousandths, so  *)
(* that 0.2 is 200 and a gamma of 0.9 is 9000; the products are exact,     *)
(* where the code's are IEEE doubles.                                      *)
(***************************************************************************)
\* An exposure transform that does not clamp the adjustment.
safeAdjustment_Unclamped(adjustment) == adjustment

\* Math.max(-1, Math.min(1, adjustment))
safeAdjustment(adjustment) ==
    LET least == IF adjustment < 1000 THEN adjustment ELSE 1000
    IN  IF least > -1000 THEN least ELSE -1000

\* Math.abs
Abs(x) == IF x >= 0 THEN x ELSE -x

ExposureGamma(safe) ==
    IF safe >= 0 THEN 10000 - safe * 5 ELSE 10000 + Abs(safe) * 8

ExposureBrightness(safe) == 10000 + safe * 3

ExposureContrast(safe) ==
    IF safe >= 0 THEN 10000 + safe * 1 ELSE 10000 - Abs(safe) * 1

\* The calls chained on sharp(input), in the order they are written.
SharpCalls(adjustment) ==
    LET safe == safeAdjustment(adjustment)
        contrast == ExposureContrast(safe)
    IN  << [op |-> "gamma", args |-> <<ExposureGamma(safe)>>],
           [op |-> "modulate", args |-> <<ExposureBrightness(safe)>>],
           [op |-> "linear", args |-> <<contrast, -(contrast - 10000) * 128>>] >>

\* The adjustments tried: -1.5 to 1.5 in steps of 0.05, and some beside.
Adjustments == { 50 * i : i \in -30..30 } \cup {-1001, -1, 1, 999, 3000}

InitAdjust ==
    /\ now = 0
    /\ hpc = "idle"
    /\ batch = <<>>
    /\ mapIdx = 1
    /\ recs = <<>>
    /\ executions = {}
    /\ failedLog = {}
    /\ invocations = 0
    /\ wfStatus = "NOT_STARTED"
    /\ wfState = ""
    /\ wfData = <<>>
    /\ wfRetries = 0
    /\ wfHistory = <<>>
    /\ fnPc = "start"
    /\ fnArg \in [adjustment : Adjustments]
    /\ fnOut = [calls |-> <<>>, outcome |-> NoOutcome]

\* adjustExposure derives the parameters and awaits sharp's toBuffer().
AdjustCallsSharp ==
    /\ fnPc = "start"
    /\ fnPc' = "sharp"
    /\ fnOut' = [fnOut EXCEPT !.calls = SharpCalls(fnArg.adjustment)]
    /\ UNCHANGED fnArg
    /\ UNCHANGED <<orchVars, wfVars>>

\* sharp settles: the processed buffer is returned, or sharp's error is
\* wrapped and thrown.
AdjustSharpSettles ==
    /\ fnPc = "sharp"
    /\ \E message \in {"", "Input buffer contains unsupported image format",
                       "Expected number between 1.0 and 3.0 for gamma"} :
         fnOut' = [fnOut EXCEPT !.outcome =
                     IF message = "" THEN Returned(Obj({}))
                     ELSE Threw("Error", "Failed to adjust exposure: " \o message)]
    /\ fnPc' = "done"
    /\ UNCHANGED fnArg
    /\ UNCHANGED <<orchVars, wfVars>>

NextAdjust ==
    \/ AdjustCallsSharp
    \/ AdjustSharpSettles

AdjustSpec == InitAdjust /\ [][NextAdjust]_vars

(***************************************************************************)
(* The keys of the two image stages.  Two objects are taken through the    *)
(* stages as the workflow chains them: the resize of a key the             *)
(* orchestrator accepts, then the exposure adjustment of the key the       *)
(* resize returned; the exposure handler is also invoked on the object's   *)
(* key itself.  fnArg holds the two keys and the dimensions the resized    *)
(* images have; fnOut[i] holds, per stage, the outputKey returned and the  *)
(* Key of the PutObjectCommand sent.                                       *)
(***************************************************************************)
\* The keys the orchestrator starts an execution for (the decoded key).
AcceptsKey(decodedKey) ==
    /\ StartsWith(decodedKey, UploadsPrefix)
    /\ ~EndsWith(decodedKey, Slash)

\* Keys the presign handler issues, for the filenames a.png, a.jpg and a.
IssuedKeys ==
    { generateFileKey(filename, DefaultPrefix, 0, <<"k","3">>) :
        filename \in { <<"a",".","p","n","g">>, <<"a",".","j","p","g">>, <<"a">> } }

KeyUnprocessedFolder ==
    UploadsPrefix \o <<"u","n">> \o ProcessedPrefix \o <<"a",".","j","p","g">>

\* The keys tried: the issued ones, uploads/unprocessed/a.jpg,
\* processed/a-resized.jpg, tmp/a.jpg, uploads/v.1/a and the folder uploads/.
StageKeys ==
    IssuedKeys
    \cup { KeyUnprocessedFolder,
           ProcessedPrefix \o <<"a","-","r","e","s","i","z","e","d",".","j","p","g">>,
           <<"t","m","p","/","a",".","j","p","g">>,
           KeyDotInFolder, UploadsPrefix }

NoWrite == [outputKey |-> <<>>, Key |-> <<>>]

\* A stage that derived outputKey: it sends PutObjectCommand({Key: outputKey})
\* and returns { outputKey }.
Wrote(outputKey) == [outputKey |-> outputKey, Key |-> outputKey]

InitStages ==
    /\ now = 0
    /\ hpc = "idle"
    /\ batch = <<>>
    /\ mapIdx = 1
    /\ recs = <<>>
    /\ executions = {}
    /\ failedLog = {}
    /\ invocations = 0
    /\ wfStatus = "NOT_STARTED"
    /\ wfState = ""
    /\ wfData = <<>>
    /\ wfRetries = 0
    /\ wfHistory = <<>>
    /\ fnPc = "stages"
    /\ fnArg \in [keys : StageKeys \X StageKeys,
                  image : {ProcessorOutput(1920, 1080), ProcessorOutput(3, 2)}]
    /\ fnOut = [i \in 1..2 |-> [resized |-> NoWrite, adjusted |-> NoWrite,
                                alone |-> NoWrite]]

\* The resize stage of the execution started for object i succeeds.
StageResize(i) ==
    /\ fnPc = "stages"
    /\ AcceptsKey(fnArg.keys[i])
    /\ fnOut[i].resized = NoWrite
    /\ fnOut' = [fnOut EXCEPT ![i].resized =
                   Wrote(ResizeOutputKey(fnArg.keys[i], fnArg.image.width,
                                         fnArg.image.height))]
    /\ UNCHANGED <<fnPc, fnArg>>
    /\ UNCHANGED <<orchVars, wfVars>>

\* The exposure stage of that execution succeeds on the key resize returned.
StageExposure(i) ==
    /\ fnPc = "stages"
    /\ fnOut[i].resized # NoWrite
    /\ fnOut[i].adjusted = NoWrite
    /\ fnOut' = [fnOut EXCEPT ![i].adjusted =
                   Wrote(ExposureOutputKey(fnOut[i].resized.outputKey))]
    /\ UNCHANGED <<fnPc, fnArg>>
    /\ UNCHANGED <<orchVars, wfVars>>

\* The exposure handler is invoked on the key of object i and succeeds.
ExposureAlone(i) ==
    /\ fnPc = "stages"
    /\ fnOut[i].alone = NoWrite
    /\ fnOut' = [fnOut EXCEPT ![i].alone = Wrote(ExposureOutputKey(fnArg.keys[i]))]
    /\ UNCHANGED <<fnPc, fnArg>>
    /\ UNCHANGED <<orchVars, wfVars>>

NextStages ==
    \/ \E i \in 1..2 : StageResize(i)
    \/ \E i \in 1..2 : StageExposure(i)
    \/ \E i \in 1..2 : ExposureAlone(i)

StagesSpec == InitStages /\ [][NextStages]_vars

(***************************************************************************)
(* Claims about the orchestrator (checked under OrchSpec).                 *)
(***************************************************************************)
\* A record the orchestrator is to start an execution for: it has its s3 and
\* object fields, its key decodes, and the decoded key is under uploads/ and
\* is no folder.
DecodedKey == [r \in Notifications |-> decodeURIComponent(ReplacePlus(r.key))]

ValidRecords ==
    { r \in Notifications :
        /\ r.hasS3
        /\ r.hasObject
        /\ DecodedKey[r].ok
        /\ StartsWith(DecodedKey[r].val, UploadsPrefix)
        /\ ~EndsWith(DecodedKey[r].val, Slash) }

IsValidRecord(r) == r \in ValidRecords

\* C1: at most one execution is ever started for a given bucket and key,
\* however often and whenever its notification is delivered.
C1_OneExecutionPerObject ==
    \A e1, e2 \in executions :
        (e1.input.bucket = e2.input.bucket /\ e1.input.key = e2.input.key)
            => e1 = e2

\* C2: once Records.map has gone through the batch, every valid record has had
\* its start attempted exactly once, whatever its siblings did and wherever
\* they sit; no record's start is ever attempted twice.
C2_ValidRecordsStartedOnce ==
    /\ \A i \in DOMAIN recs : recs[i].sends <= 1
    /\ hpc \in {"join", "done", "rejected"} =>
         \A i \in DOMAIN recs : IsValidRecord(batch[i]) => recs[i].sends = 1

\* C2 witness: a record without s3 comes first in the batch, and the execution
\* of its valid sibling has been started all the same, by one attempt.
C2_Witness ==
    /\ hpc \in {"join", "done", "rejected"}
    /\ Len(batch) = 2
    /\ ~batch[1].hasS3
    /\ recs[1].st \in {"rejected", "catchThrew"}
    /\ IsValidRecord(batch[2])
    /\ recs[2].sends = 1
    /\ recs[2].st = "fulfilled"
    /\ recs[2].cmd \in executions

\* C3: the handler never rejects, and it completes only when the promise of
\* every record has settled.
C3_HandlerCompletesAfterAllSettle ==
    /\ hpc # "rejected"
    /\ hpc = "done" => \A i \in DOMAIN recs : recs[i].st = "fulfilled"

\* C4: a start that fails with ExecutionAlreadyExists ends the record as a
\* success that is not logged as failed; any other start failure is rethrown,
\* so the record's promise rejects and the batch driver logs it.
C4_AlreadyExistsIsSuccess ==
    \A i \in DOMAIN recs :
        /\ recs[i].err = "ExecutionAlreadyExists" =>
             (recs[i].st = "fulfilled" /\ i \notin failedLog)
        /\ recs[i].err = "ServiceUnavailable" =>
             (recs[i].st = "rejected" \/ (recs[i].st = "fulfilled" /\ i \in failedLog))

\* C4 witness: one batch in which a duplicate ended on ExecutionAlreadyExists
\* as a success and another start failure was logged.
C4_Witness ==
    /\ Len(recs) = 2
    /\ recs[1].err = "ExecutionAlreadyExists"
    /\ recs[1].st = "fulfilled"
    /\ recs[2].err = "ServiceUnavailable"
    /\ failedLog = {2}
    /\ hpc = "done"

\* C5: the key is decoded before any test; no start for a record whose decoded
\* key is outside uploads/ or ends with '/'; every other record's start carries
\* the bucket name, the decoded key, the size and the event time.
C5_DecodedKeyDecides ==
    \A i \in DOMAIN recs :
        (recs[i].st # "unmapped" /\ batch[i].hasS3 /\ batch[i].hasObject) =>
            LET decoded == DecodedKey[batch[i]]
            IN  /\ (~decoded.ok \/ ~StartsWith(decoded.val, UploadsPrefix)
                      \/ EndsWith(decoded.val, Slash)) =>
                        (recs[i].sends = 0 /\ recs[i].cmd = NoCmd)
                /\ (decoded.ok /\ StartsWith(decoded.val, UploadsPrefix)
                      /\ ~EndsWith(decoded.val, Slash)) =>
                        /\ recs[i].sends = 1
                        /\ recs[i].cmd.input.bucket = batch[i].bucket
                        /\ recs[i].cmd.input.key = decoded.val
                        /\ recs[i].cmd.input.size = batch[i].size
                        /\ recs[i].cmd.input.uploadedAt = batch[i].eventTime
                /\ batch[i].key = KeyEncoded =>
                        recs[i].cmd.input.key = UploadsPrefix \o <<"b", " ", "c">>
                /\ batch[i].key \in {KeyFolder, KeyOther} => recs[i].sends = 0

\* C5 witness: a key that is under uploads/ only once decoded has had its
\* execution started with the decoded key, next to a folder that was skipped.
C5_Witness ==
    /\ hpc = "done"
    /\ Len(batch) = 2
    /\ batch[1].key = KeyEncoded
    /\ recs[1].cmd.input.key = UploadsPrefix \o <<"b", " ", "c">>
    /\ recs[1].cmd \in executions
    /\ batch[2].key = KeyFolder
    /\ recs[2].st = "fulfilled"
    /\ recs[2].sends = 0

(***************************************************************************)
(* Claims about the state machine (checked under WorkflowSpec).            *)
(***************************************************************************)
\* The places of the events `e` of state `st` in the history.
EventsOf(e, st) ==
    { k \in DOMAIN wfHistory : wfHistory[k].ev = e /\ wfHistory[k].state = st }

\* The input the execution was started with.
JobInput == wfHistory[1].json

Steps == {"ValidateInput", "ResizeImage", "AdjustExposure"}

C7_StepErrorEntersHandleError ==
    /\ \A k \in DOMAIN wfHistory :
         (/\ wfHistory[k].ev = "LambdaFailed"
          /\ ~(k + 1 \in DOMAIN wfHistory /\ wfHistory[k + 1].ev = "RetryWait")) =>
            /\ k + 1 \in DOMAIN wfHistory
            /\ wfHistory[k + 1].ev = "StateEntered"
            /\ wfHistory[k + 1].state = "HandleError"
    /\ \A k \in EventsOf("StateEntered", "HandleError") :
         /\ <<"key">> \in DOMAIN wfHistory[k].json
         /\ wfHistory[k].json[<<"key">>] = JobInput[<<"key">>]
         /\ HasPath(wfHistory[k].json, <<"error">>)
    /\ \A k \in EventsOf("ExecutionSucceeded", "HandleError") :
         /\ wfHistory[k].json[<<"status">>] = Str("failed")
         /\ wfHistory[k].json[<<"originalKey">>] = JobInput[<<"key">>]

\* C8: ResizeImage is entered only after ValidateInput has completed, and with
\* the bucket and key of the job; AdjustExposure only after ResizeImage has
\* succeeded, and its function gets the outputKey ResizeImage returned.
C8_StepsChainInOrder ==
    /\ \A k \in EventsOf("StateEntered", "ResizeImage") :
         /\ \E j \in EventsOf("LambdaSucceeded", "ValidateInput") : j < k
         /\ <<"bucket">> \in DOMAIN wfHistory[k].json
         /\ <<"key">> \in DOMAIN wfHistory[k].json
         /\ wfHistory[k].json[<<"bucket">>] = JobInput[<<"bucket">>]
         /\ wfHistory[k].json[<<"key">>] = JobInput[<<"key">>]
    /\ \A k \in EventsOf("LambdaInvoked", "ResizeImage") :
         /\ wfHistory[k].json[<<"bucket">>] = JobInput[<<"bucket">>]
         /\ wfHistory[k].json[<<"key">>] = JobInput[<<"key">>]
    /\ \A k \in EventsOf("StateEntered", "AdjustExposure") :
         \E j \in EventsOf("LambdaSucceeded", "ResizeImage") : j < k
    /\ \A k \in EventsOf("LambdaInvoked", "AdjustExposure") :
         /\ wfHistory[k].json[<<"key">>] # JobInput[<<"key">>]
         /\ \E j \in EventsOf("LambdaSucceeded", "ResizeImage") :
              /\ j < k
              /\ wfHistory[k].json[<<"key">>] = wfHistory[j].json[<<"outputKey">>]

\* The retries the claim gives each step, and the base of its delays.
ClaimedRetries(st) == IF st = "ValidateInput" THEN 2 ELSE 3

ClaimedBaseDelay(st) == IF st = "ValidateInput" THEN 2 ELSE 5

\* C10: a step's function is invoked at most once plus its retries (2 for
\* ValidateInput, 3 for the image stages); the wait before retry n is the base
\* interval (2 s, 5 s) times 2^(n-1); when the last retry has failed too, the
\* execution is no longer running and no step is entered afterwards.  The
\* engine's answer to failure n + 1 of each step is a retry exactly while
\* n is below the step's number of retries.
C10_RetriesBoundedWithBackoff ==
    \A st \in Steps :
        LET calls == EventsOf("LambdaInvoked", st)
            fails == EventsOf("LambdaFailed", st)
            waits == EventsOf("RetryWait", st)
        IN  /\ Cardinality(calls) <= 1 + ClaimedRetries(st)
            /\ Cardinality(waits) <= ClaimedRetries(st)
            /\ \A k \in waits :
                 wfHistory[k].delay =
                    ClaimedBaseDelay(st) * Pow(2, Cardinality({ j \in waits : j < k }))
            /\ Cardinality(fails) = 1 + ClaimedRetries(st) =>
                 /\ wfStatus # "RUNNING"
                 /\ \A m \in DOMAIN wfHistory :
                      (wfHistory[m].ev = "StateEntered" /\ wfHistory[m].state \in Steps)
                          => \E k \in fails : m < k
            /\ \A n \in 0..ClaimedRetries(st) :
                 LET todo == OnTaskFailure(StateDef(st), "Error", n)
                 IN  IF n < ClaimedRetries(st)
                     THEN /\ todo.do = "retry"
                          /\ todo.delay = ClaimedBaseDelay(st) * Pow(2, n)
                     ELSE todo.do # "retry"

\* C10 witness: ValidateInput failed three times, after waits of 2 s and 4 s,
\* and the execution has failed in ValidateInput.
C10_Witness ==
    /\ Cardinality(EventsOf("LambdaFailed", "ValidateInput")) = 3
    /\ { wfHistory[k].delay : k \in EventsOf("RetryWait", "ValidateInput") } = {2, 4}
    /\ wfStatus = "FAILED"
    /\ wfState = "ValidateInput"

\* The outcome of the execution: the engine's statuses FAILED and TIMED_OUT are
\* both the outcome Failed.
Outcome ==
    CASE wfStatus = "SUCCEEDED" -> "Succeeded"
      [] wfStatus \in {"FAILED", "TIMED_OUT"} -> "Failed"
      [] OTHER -> "None"

\* C11: every execution eventually has the outcome Succeeded or Failed; once it
\* has an outcome, its status, state, data and history never change again (so
\* the outcome is the only one and no step is invoked afterwards).
C11_ExecutionTerminatesOnce ==
    /\ <>(Outcome \in {"Succeeded", "Failed"})
    /\ [][Outcome # "None" => UNCHANGED wfVars]_vars

\* C11 witness: an execution abandoned at its timeout while ValidateInput was
\* waiting for a retry.
C11_Witness ==
    /\ Outcome = "Failed"
    /\ wfStatus = "TIMED_OUT"
    /\ wfHistory[Len(wfHistory) - 1].ev = "RetryWait"

C13_OnlyNotFoundIsReturned ==
    fnPc = "done" =>
        /\ fnArg.err \in MissingObjectErrors =>
              fnOut = Returned(Obj({ <<<<"isValid">>, Str("false")>>,
                                     <<<<"error">>, Str("File not found")>> }))
        /\ (fnArg.err # "" /\ fnArg.err \notin MissingObjectErrors) =>
              /\ ~fnOut.ok
              /\ fnOut.cause = "Validation failed: " \o fnArg.err
        /\ fnArg.err = "" => fnOut.ok

\* C14: for a headObject that succeeds the validator answers with the first
\* that applies: no content type; a type outside the three allowed ones, named
\* in the message; a length above 25 MiB, named in the message with the
\* maximum; otherwise valid, echoing content type and size, without error.
C14_ValidatorChecksInOrder ==
    (fnPc = "done" /\ fnArg.err = "") =>
        LET type == fnArg.ContentType
            size == fnArg.ContentLength
            has(f) == <<f>> \in DOMAIN fnOut.result
            get(f) == fnOut.result[<<f>>]
        IN  /\ fnOut.ok
            /\ IF ~fnArg.hasType \/ type = ""
               THEN /\ get("isValid") = Str("false")
                    /\ get("error") = Str("File has no content type")
               ELSE IF type \notin {"image/jpeg", "image/png", "image/webp"}
               THEN /\ get("isValid") = Str("false")
                    /\ get("error") = Str("Invalid content type: " \o type)
               ELSE IF fnArg.hasLength /\ size > 25 * 1024 * 1024
               THEN /\ get("isValid") = Str("false")
                    /\ get("error") = Str("File size (" \o ToString(size)
                                          \o ") exceeds maximum (26214400)")
               ELSE /\ get("isValid") = Str("true")
                    /\ get("contentType") = Str(type)
                    /\ fnArg.hasLength => get("size") = Str(ToString(size))
                    /\ ~has("error")

\* C14 witness: an object both of a disallowed type and oversize has been
\* reported for its type.
C14_Witness ==
    /\ fnPc = "done"
    /\ fnArg.err = ""
    /\ fnArg.hasType /\ fnArg.ContentType = "application/pdf"
    /\ fnArg.hasLength /\ fnArg.ContentLength > 25 * 1024 * 1024
    /\ fnOut.ok
    /\ fnOut.result[<<"error">>] = Str("Invalid content type: application/pdf")

(***************************************************************************)
(* Claims about the presign handler (checked under PresignSpec).           *)
(***************************************************************************)
\* C15: a 200 response is given only to a request whose contentType is one of
\* the three allowed and whose fileSize is in 1..26214400; every other
\* response is not 200 and carries neither uploadUrl nor key.
C15_UrlOnlyForValidRequests ==
    fnPc = "done" =>
        /\ fnOut.statusCode = 200 =>
              /\ fnArg.body.kind = "object"
              /\ fnArg.body.hasType
              /\ fnArg.body.contentType \in {"image/jpeg", "image/png", "image/webp"}
              /\ fnArg.body.hasSize
              /\ fnArg.body.fileSize >= 1
              /\ fnArg.body.fileSize <= 26214400
        /\ fnOut.statusCode # 200 =>
              /\ <<"uploadUrl">> \notin DOMAIN fnOut.body
              /\ <<"key">> \notin DOMAIN fnOut.body

\* A field the handler finds missing: absent, or empty, or zero.
FieldsMissing(body) ==
    \/ ~body.hasFilename \/ body.filename = <<>>
    \/ ~body.hasType \/ body.contentType = ""
    \/ ~body.hasSize \/ body.fileSize = 0

\* C16: a parsed request is answered with the first failing check: a missing
\* field gives 400 "Missing required fields..."; otherwise a contentType
\* outside the allowed set gives 400 "Invalid content type..."; otherwise a
\* fileSize above 25 MiB gives 400 "File size exceeds maximum..."; no other
\* request is answered 400.
C16_FirstFailingCheckAnswers ==
    (fnPc = "done" /\ fnArg.body.kind = "object") =>
        IF FieldsMissing(fnArg.body)
        THEN fnOut = Response(400, ErrorBody(
                 "Missing required fields" \o ": filename, contentType, fileSize"))
        ELSE IF fnArg.body.contentType \notin {"image/jpeg", "image/png", "image/webp"}
        THEN fnOut = Response(400, ErrorBody(
                 "Invalid content type" \o ". Allowed: image/jpeg, image/png, image/webp"))
        ELSE IF fnArg.body.fileSize > 26214400
        THEN fnOut = Response(400, ErrorBody("File size exceeds maximum" \o " of 25MB"))
        ELSE fnOut.statusCode # 400

\* C16 witness: a request both of a disallowed type and oversize has been
\* answered with the content-type message.
C16_Witness ==
    /\ fnPc = "done"
    /\ fnArg.body.kind = "object"
    /\ ~FieldsMissing(fnArg.body)
    /\ fnArg.body.contentType = "text/plain"
    /\ fnArg.body.fileSize > 26214400
    /\ fnOut.statusCode = 400
    /\ fnOut.body[<<"error">>]
         = Str("Invalid content type. Allowed: image/jpeg, image/png, image/webp")

\* A valid upload request: allowed contentType, 0 < fileSize <= 25 MiB,
\* non-empty filename.
ValidUploadRequest(body) ==
    /\ body.kind = "object"
    /\ body.hasFilename /\ body.filename # <<>>
    /\ body.hasType /\ body.contentType \in {"image/jpeg", "image/png", "image/webp"}
    /\ body.hasSize /\ body.fileSize > 0 /\ body.fileSize <= 26214400

\* C17: a valid request whose signing succeeds is answered 200; the 200
\* response holds uploadUrl, key and expiresAt, the key starts with uploads/,
\* expiresAt is the instant the response is made plus 3600 s, and the URL was
\* signed, not later than that instant, for a lifetime of 3600 s.
C17_ValidRequestGetsUrl ==
    /\ [](( /\ fnPc = "done"
            /\ ValidUploadRequest(fnArg.body)
            /\ ~fnArg.signerFails ) => fnOut.statusCode = 200)
    /\ [][ (fnPc = "signed" /\ fnPc' = "done") =>
             /\ fnOut'.statusCode = 200
             /\ DOMAIN fnOut'.body = { <<"uploadUrl">>, <<"key">>, <<"expiresAt">> }
             /\ StartsWith(fnOut'.body[<<"key">>], UploadsPrefix)
             /\ fnOut'.body[<<"expiresAt">>] = Str(ToISOString(now + 3600 * 1000))
             /\ fnOut'.body[<<"uploadUrl">>].expiresIn = 3600
             /\ fnOut'.body[<<"uploadUrl">>].command.Key = fnOut'.body[<<"key">>]
             /\ fnOut'.body[<<"uploadUrl">>].signedAt <= now ]_vars

\* C17 witness: a request of exactly 25 MiB, signed at instant 0 and answered
\* one millisecond later, has got its URL with expiresAt one hour and one
\* millisecond after the epoch.
C17_Witness ==
    /\ fnPc = "done"
    /\ ValidUploadRequest(fnArg.body)
    /\ fnArg.body.fileSize = 26214400
    /\ fnOut.statusCode = 200
    /\ fnOut.body[<<"uploadUrl">>].signedAt = 0
    /\ fnOut.body[<<"expiresAt">>] = Str("1970-01-01T01:00:00.001Z")

C19_KeyShapeAndSanitizing ==
    fnPc = "done" =>
        LET n == Len(fnArg.filename)
            k == fnOut.key
            s == SubSeq(k, Len(k) - n + 1, Len(k))
            prefix == IF fnArg.hasPrefix THEN <<"c","-","f">>
                      ELSE <<"u","p","l","o","a","d","s">>
        IN  /\ Len(k) >= n
            /\ SubSeq(k, 1, Len(k) - n)
                 = prefix \o <<"/">> \o Digits(fnOut.timestamp) \o <<"-">>
                     \o fnOut.randomId \o <<"-">>
            /\ \A i \in 1..n :
                 s[i] = IF fnArg.filename[i] \in KeptChars \cup {"_"}
                        THEN fnArg.filename[i] ELSE "_"
            /\ Sanitize(s) = s

\* C19 witness: a filename with a character to replace and one to keep, under
\* the default prefix.
C19_Witness ==
    /\ fnPc = "done"
    /\ ~fnArg.hasPrefix
    /\ fnArg.filename = <<"@", ".">>
    /\ fnOut.key = <<"u","p","l","o","a","d","s","/","0","-","k","3","-","_",".">>

\* C20: two calls never return the same key when their filenames are equal,
\* and never when their (timestamp, token) pairs differ.
C20_KeysUniquePerIssuance ==
    \A i, j \in DOMAIN fnOut :
        i < j =>
            /\ fnOut[i].filename = fnOut[j].filename => fnOut[i].key # fnOut[j].key
            /\ <<fnOut[i].timestamp, fnOut[i].randomId>>
                 # <<fnOut[j].timestamp, fnOut[j].randomId>>
                   => fnOut[i].key # fnOut[j].key

(***************************************************************************)
(* Claims about the resize dimensions (checked under ResizeTargetSpec).    *)
(***************************************************************************)
\* t is num / den rounded to the nearest integer, a half going up.
IsRounded(t, num, den) ==
    /\ 2 * t * den - 2 * num <= den
    /\ 2 * t * den - 2 * num > -den

\* The source's dimensions are known and the aspect ratio is to be kept.
KeepsAspect ==
    /\ fnArg.maintainAspectRatio # "false"
    /\ fnArg.metaWidth # 0
    /\ fnArg.metaHeight # 0

C22_BothDimensionsFitInside ==
    (fnPc = "done" /\ fnArg.width # 0 /\ fnArg.height # 0) =>
        /\ KeepsAspect =>
              /\ fnOut.targetWidth <= fnArg.width
              /\ fnOut.targetHeight <= fnArg.height
              /\ \/ fnOut.targetWidth = fnArg.width
                 \/ fnOut.targetHeight = fnArg.height
              /\ IF fnArg.width * fnArg.metaHeight <= fnArg.height * fnArg.metaWidth
                 THEN /\ IsRounded(fnOut.targetWidth,
                                   fnArg.metaWidth * fnArg.width, fnArg.metaWidth)
                      /\ IsRounded(fnOut.targetHeight,
                                   fnArg.metaHeight * fnArg.width, fnArg.metaWidth)
                 ELSE /\ IsRounded(fnOut.targetWidth,
                                   fnArg.metaWidth * fnArg.height, fnArg.metaHeight)
                      /\ IsRounded(fnOut.targetHeight,
                                   fnArg.metaHeight * fnArg.height, fnArg.metaHeight)
        /\ fnArg.maintainAspectRatio = "false" =>
              fnOut = [targetWidth |-> fnArg.width, targetHeight |-> fnArg.height]

\* A 4000x3000 source fitted inside 1920x1080 has the target 1440x1080.
C22_Witness ==
    /\ fnPc = "done"
    /\ KeepsAspect
    /\ fnArg.metaWidth = 4000
    /\ fnArg.metaHeight = 3000
    /\ fnArg.width = 1920
    /\ fnArg.height = 1080
    /\ fnOut = [targetWidth |-> 1440, targetHeight |-> 1080]

\* C23: when resize is given neither a width nor a height, the target is
\* 1920x1080 for every source image, whatever its own dimensions.
C23_DefaultTargetIs1920x1080 ==
    (fnPc = "done" /\ fnArg.width = 0 /\ fnArg.height = 0) =>
        fnOut = [targetWidth |-> 1920, targetHeight |-> 1080]

(***************************************************************************)
(* Claims about the resize handler (checked under ResizeSpec).             *)
(***************************************************************************)
\* The last position of character c in s, 0 when s has none.
LastIndexOf(s, c) ==
    LET at == { i \in DOMAIN s : s[i] = c }
    IN  IF at = {} THEN 0 ELSE CHOOSE i \in at : \A j \in at : j <= i

\* s without the extension of its file name, if the file name has one.
WithoutExtension(s) ==
    IF LastIndexOf(s, ".") > LastIndexOf(s, "/")
    THEN SubSeq(s, 1, LastIndexOf(s, ".") - 1)
    ELSE s

\* The key under processed/ of a key under uploads/.
UnderProcessed(key) ==
    ProcessedPrefix \o SubSeq(key, Len(UploadsPrefix) + 1, Len(key))

\* -resized-{w}x{h}.jpg
ResizedSuffix(w, h) ==
    <<"-","r","e","s","i","z","e","d","-">> \o Digits(w) \o <<"x">> \o Digits(h)
        \o <<".","j","p","g">>

\* C24: for every input key a successful resize writes to, and returns as
\* outputKey, the input key with uploads/ replaced by processed/ and the
\* extension replaced by -resized-{width}x{height}.jpg, the output's
\* dimensions, which are also returned and stored in the dimensions metadata;
\* the object written carries the source's metadata plus processing-step =
\* resize and original-key = the input key.
C24_ResizeOutputKeyAndMetadata ==
    (fnPc = "done" /\ fnOut.outcome.ok) =>
        LET w == fnOut.image.width
            h == fnOut.image.height
            expected == WithoutExtension(UnderProcessed(fnArg.key)) \o ResizedSuffix(w, h)
            added == { <<"processing-step">>, <<"original-key">>, <<"dimensions">>,
                       <<"processed-at">> }
        IN  /\ fnOut.outcome.result[<<"outputKey">>] = expected
            /\ fnOut.outcome.result[<<"dimensions", "width">>] = Str(ToString(w))
            /\ fnOut.outcome.result[<<"dimensions", "height">>] = Str(ToString(h))
            /\ { object.Key : object \in fnOut.store } = {expected}
            /\ \A object \in fnOut.store :
                  /\ object.Metadata[<<"dimensions">>] = Digits(w) \o <<"x">> \o Digits(h)
                  /\ object.Metadata[<<"processing-step">>] = Str("resize")
                  /\ object.Metadata[<<"original-key">>] = fnArg.key
                  /\ \A name \in DOMAIN fnArg.Metadata \ added :
                        /\ name \in DOMAIN object.Metadata
                        /\ object.Metadata[name] = fnArg.Metadata[name]

\* C27: a resize invocation that fails while it downloads, decodes or encodes
\* has written no object and fails with that very error, a failure of the
\* upload is rethrown unchanged, and no error is swallowed or turned into a
\* result.
C27_ResizeFailuresPropagate ==
    fnPc = "done" =>
        IF fnOut.caught # NoOutcome
        THEN /\ fnOut.outcome = fnOut.caught
             /\ ~fnOut.outcome.ok
             /\ fnOut.store = {}
        ELSE /\ fnOut.outcome.ok
             /\ fnOut.store = {fnOut.command}

\* sharp rejects the downloaded bytes: nothing is written and the invocation
\* fails with sharp's error.
C27_Witness ==
    /\ fnPc = "done"
    /\ fnOut.caught = Threw("Error", "Input buffer contains unsupported image format")
    /\ fnOut.outcome = fnOut.caught
    /\ fnOut.store = {}

(***************************************************************************)
(* Claims about the exposure transform (checked under AdjustSpec), with    *)
(* adjustments in thousandths and parameters in ten-thousandths.           *)
(***************************************************************************)
\* C26: with c the adjustment a clamped to [-1, 1], the exposure transform
\* uses gamma = 1 - 0.5c for c >= 0 and 1 + 0.8|c| for c < 0, brightness =
\* 1 + 0.3c, contrast = 1 + 0.1c for c >= 0 and 1 - 0.1|c| for c < 0, and the
\* contrast offset -(contrast - 1) * 128; a = 0 changes nothing, a >= 1 gives
\* gamma 0.5 and a <= -1 gives gamma 1.8; gamma stays in [0.5, 1.8],
\* brightness in [0.7, 1.3], contrast in [0.9, 1.1]; the operations are
\* applied in the order gamma, brightness, linear contrast.
C26_ExposureParameters ==
    fnPc # "start" =>
        LET a == fnArg.adjustment
            c == IF a > 1000 THEN 1000 ELSE IF a < -1000 THEN -1000 ELSE a
            gamma == fnOut.calls[1].args[1]
            brightness == fnOut.calls[2].args[1]
            contrast == fnOut.calls[3].args[1]
            offset == fnOut.calls[3].args[2]
        IN  /\ [i \in DOMAIN fnOut.calls |-> fnOut.calls[i].op]
                 = <<"gamma", "modulate", "linear">>
            /\ c >= 0 => gamma = 10000 - 5 * c /\ contrast = 10000 + c
            /\ c < 0 => gamma = 10000 + 8 * (-c) /\ contrast = 10000 - (-c)
            /\ brightness = 10000 + 3 * c
            /\ offset = -(contrast - 10000) * 128
            /\ a = 0 => /\ gamma = 10000
                        /\ brightness = 10000
                        /\ contrast = 10000
                        /\ offset = 0
            /\ a >= 1000 => gamma = 5000
            /\ a <= -1000 => gamma = 18000
            /\ 5000 <= gamma /\ gamma <= 18000
            /\ 7000 <= brightness /\ brightness <= 13000
            /\ 9000 <= contrast /\ contrast <= 11000

\* An adjustment of -1.001 is clamped to -1: gamma 1.8, brightness 0.7,
\* contrast 0.9 with offset 12.8, and sharp has run.
C26_Witness ==
    /\ fnPc = "done"
    /\ fnOut.outcome.ok
    /\ fnArg.adjustment = -1001
    /\ fnOut.calls = << [op |-> "gamma", args |-> <<18000>>],
                        [op |-> "modulate", args |-> <<7000>>],
                        [op |-> "linear", args |-> <<9000, 128000>>] >>

(***************************************************************************)
(* Claims about the keys of the stages (checked under StagesSpec).         *)
(***************************************************************************)
\* -exposure-adjusted.jpg
AdjustedSuffix ==
    <<"-","e","x","p","o","s","u","r","e","-","a","d","j","u","s","t","e","d",
      ".","j","p","g">>

\* The file name of the key has an extension.
HasExtension(key) ==
    /\ LastIndexOf(key, ".") > LastIndexOf(key, "/")
    /\ LastIndexOf(key, ".") < Len(key)

\* C25: the exposure stage derives its output key from where its input
\* lives: for a key under processed/ it replaces the extension by
\* -exposure-adjusted.jpg and keeps the directory, for any other key it first
\* replaces uploads/ by processed/ and then applies the same suffix; chained
\* after resize, uploads/<name>.<ext> ends at
\* processed/<name>-resized-<W>x<H>-exposure-adjusted.jpg; the outputKey
\* returned is the key written.
C25_ExposureOutputKey ==
    \A i \in 1..2 :
        LET key == fnArg.keys[i]
            w == fnArg.image.width
            h == fnArg.image.height
        IN  /\ fnOut[i].alone # NoWrite =>
                  /\ fnOut[i].alone.outputKey = fnOut[i].alone.Key
                  /\ StartsWith(key, ProcessedPrefix) =>
                        fnOut[i].alone.Key = WithoutExtension(key) \o AdjustedSuffix
                  /\ StartsWith(key, UploadsPrefix) =>
                        fnOut[i].alone.Key =
                            WithoutExtension(UnderProcessed(key)) \o AdjustedSuffix
            /\ (fnOut[i].adjusted # NoWrite /\ HasExtension(key)) =>
                  /\ fnOut[i].adjusted.outputKey = fnOut[i].adjusted.Key
                  /\ fnOut[i].adjusted.Key =
                        WithoutExtension(UnderProcessed(key))
                            \o <<"-","r","e","s","i","z","e","d","-">>
                            \o Digits(w) \o <<"x">> \o Digits(h) \o AdjustedSuffix

\* C28: in every successful execution the original key, the resize output
\* key and the exposure output key are pairwise distinct, so that no stage
\* overwrites the upload or another stage's output, for every key the
\* presign handler can issue, keys without an extension included.
C28_StageKeysPairwiseDistinct ==
    \A i \in 1..2 :
        (fnArg.keys[i] \in IssuedKeys /\ fnOut[i].adjusted # NoWrite) =>
            /\ fnOut[i].resized.Key # fnArg.keys[i]
            /\ fnOut[i].adjusted.Key # fnArg.keys[i]
            /\ fnOut[i].adjusted.Key # fnOut[i].resized.Key

\* C29: no object a stage of the workflow writes has a key that starts with
\* uploads/: for every key the orchestrator accepts, the resize output and
\* the exposure output lie under processed/, so neither raises a
\* notification the orchestrator would accept.
C29_OutputsUnderProcessed ==
    \A i \in 1..2 :
        \A write \in {fnOut[i].resized, fnOut[i].adjusted} \ {NoWrite} :
            /\ StartsWith(write.Key, ProcessedPrefix)
            /\ ~StartsWith(write.Key, UploadsPrefix)
            /\ ~AcceptsKey(write.Key)

\* An accepted upload has gone through both stages, both outputs under
\* processed/.
C29_Witness ==
    /\ AcceptsKey(fnArg.keys[1])
    /\ fnArg.keys[1] = KeyUnprocessedFolder
    /\ fnOut[1].resized # NoWrite
    /\ fnOut[1].adjusted # NoWrite
    /\ StartsWith(fnOut[1].resized.Key, ProcessedPrefix)
    /\ StartsWith(fnOut[1].adjusted.Key, ProcessedPrefix)

\* C30: for equal output dimensions, two different accepted upload keys
\* have different resize output keys and different exposure output keys,
\* also when they differ in their extension only, so that concurrent
\* executions never write the same object.
C30_OutputKeysInjective ==
    (/\ fnArg.keys[1] # fnArg.keys[2]
     /\ AcceptsKey(fnArg.keys[1])
     /\ AcceptsKey(fnArg.keys[2])) =>
        /\ (fnOut[1].resized # NoWrite /\ fnOut[2].resized # NoWrite) =>
              fnOut[1].resized.Key # fnOut[2].resized.Key
        /\ (fnOut[1].adjusted # NoWrite /\ fnOut[2].adjusted # NoWrite) =>
              fnOut[1].adjusted.Key # fnOut[2].adjusted.Key

====
